---- MODULE Spec2Model ----
(***************************************************************************)
(* The stream session manager of the PowerOcean integration                *)
(* (custom_components/ecoflow/mqtt_client.py, PowerOceanMqttClient) with   *)
(* the transport callbacks of the network thread, the event loop that runs *)
(* the queue-put tasks, the message worker and the handler tasks, and the  *)
(* callers of the public operations.                                       *)
(*                                                                         *)
(* Strings that the code formats, splits or searches (topics, patterns,    *)
(* serials) are sequences of one-character strings, so that `in`, split    *)
(* and format are computed the way Python computes them.                   *)
(***************************************************************************)
EXTENDS Integers, Sequences, FiniteSets, TLC

(* ------------------------------ bounds -------------------------------- *)

\* messages the transport delivers in one behaviour
MaxMsgs == 2
\* transport clients (mqtt.Client objects) created in one behaviour
MaxClients == 2
\* distinct (pattern, handler) registrations made in one behaviour
MaxRegistrations == 2
\* messages delivered in a behaviour in which the returns of the calls are recorded
MaxCallMsgs == 1
\* messages delivered in a behaviour with every kind of payload and registration
MaxVarietyMsgs == 1
\* fields in one binary record
MaxFields == 2
\* bytes in one payload handed to the payload decoder
MaxPayloadLen == 6

(* ------------------------------ strings ------------------------------- *)

\* const.py: the common head of the four MQTT_TOPIC_* templates
TopicHead == <<"t","h","i","n","g","s","p","r","o","/","d","e","v","i","c","e","/">>

\* MQTT_TOPIC_DEVICE_STATUS.format(device_sn=sn)
MQTT_TOPIC_DEVICE_STATUS(sn) == TopicHead \o sn \o <<"/","s","t","a","t","u","s">>

\* MQTT_TOPIC_DEVICE_PROPERTY.format(device_sn=sn)
MQTT_TOPIC_DEVICE_PROPERTY(sn) ==
    TopicHead \o sn \o <<"/","p","r","o","p","e","r","t","i","e","s">>

\* MQTT_TOPIC_PROPERTY_SET_RESULT.format(device_sn=sn)
MQTT_TOPIC_PROPERTY_SET_RESULT(sn) ==
    TopicHead \o sn
      \o <<"/","p","r","o","p","e","r","t","y","/","s","e","t","/","r","e","s","u","l","t">>

\* the pattern the switch, number and select entities register:
\* f"/app/device/property/{device_sn}"
EntityPattern(sn) ==
    <<"/","a","p","p","/","d","e","v","i","c","e","/",
      "p","r","o","p","e","r","t","y","/">> \o sn

\* the topic the entities publish to: f"/app/device/property/set/{device_sn}"
EntitySetTopic(sn) ==
    <<"/","a","p","p","/","d","e","v","i","c","e","/",
      "p","r","o","p","e","r","t","y","/","s","e","t","/">> \o sn

\* the literal "properties" the worker looks for in a topic
PropertiesWord == <<"p","r","o","p","e","r","t","i","e","s">>

\* Python `pat in s` on strings: pat is a contiguous substring of s
Contains(pat, s) ==
    \E i \in 0..(Len(s) - Len(pat)) : SubSeq(s, i + 1, i + Len(pat)) = pat

\* Python s.split("/"): the segments between the separators, empty ones kept
RECURSIVE SplitFrom(_, _, _)
SplitFrom(s, i, cur) ==
    IF i > Len(s) THEN <<cur>>
    ELSE IF s[i] = "/" THEN <<cur>> \o SplitFrom(s, i + 1, <<>>)
    ELSE SplitFrom(s, i + 1, Append(cur, s[i]))

Split(s) == SplitFrom(s, 1, <<>>)

(* --------------------------- input domains ---------------------------- *)

Serials == {<<"A">>, <<"B">>}

\* patterns a consumer registers: the entities' pattern for device A, and a
\* pattern that is part of every topic of const.py
DevicePattern == <<"/","d","e","v","i","c","e","/">>
Patterns == {EntityPattern(<<"A">>), DevicePattern}

Handlers == {"h1", "h2"}

\* Wire payloads, by what on_message and json.loads make of them:
\*   objA   {"p": {"a": 1}}     objB   {"p": {"b": 2}}
\*   array  [1]  (JSON, not an object)
\*   text   not JSON            bytes  not UTF-8
Payloads == {"objA", "objB", "array", "text", "bytes"}

\* what the broker sends in this model: every kind of payload on the property
\* topic of device A, an object on its status topic, an object on the property
\* topic of device B
Inbound ==
    {<<MQTT_TOPIC_DEVICE_PROPERTY(<<"A">>), p>> : p \in Payloads}
      \cup {<<MQTT_TOPIC_DEVICE_STATUS(<<"A">>), "objA">>,
            <<MQTT_TOPIC_DEVICE_PROPERTY(<<"B">>), "objA">>}

\* a narrower traffic: objects for two devices and a payload that is not JSON
InboundOrder ==
    {<<MQTT_TOPIC_DEVICE_PROPERTY(<<"A">>), "objA">>,
     <<MQTT_TOPIC_DEVICE_PROPERTY(<<"A">>), "text">>,
     <<MQTT_TOPIC_DEVICE_PROPERTY(<<"B">>), "objB">>}

\* two different objects for device A
InboundHandle ==
    {<<MQTT_TOPIC_DEVICE_PROPERTY(<<"A">>), "objA">>,
     <<MQTT_TOPIC_DEVICE_PROPERTY(<<"A">>), "objB">>}

\* msg.payload.decode("utf-8") raises UnicodeDecodeError on these
IsUtf8(p) == p # "bytes"

\* json.loads(payload): ok = FALSE is json.JSONDecodeError; isDict tells an
\* object from the other JSON values; data is the decoded object
json_loads(p) ==
    CASE p = "objA" -> [ok |-> TRUE, isDict |-> TRUE,
                        data |-> [k \in {"p"} |-> [j \in {"a"} |-> 1]]]
      [] p = "objB" -> [ok |-> TRUE, isDict |-> TRUE,
                        data |-> [k \in {"p"} |-> [j \in {"b"} |-> 2]]]
      [] p = "array" -> [ok |-> TRUE, isDict |-> FALSE, data |-> [k \in {} |-> 0]]
      [] OTHER -> [ok |-> FALSE, isDict |-> FALSE, data |-> [k \in {} |-> 0]]

EmptyDict == [k \in {} |-> 0]

(* ------------------------------- state -------------------------------- *)

VARIABLES
    mqtt_client,        \* self.mqtt_client: 0 is None, n > 0 the n-th mqtt.Client
    clients_created,    \* how many mqtt.Client objects were constructed
    loop_running,       \* the network thread of mqtt_client runs (loop_start .. loop_stop)
    connected,          \* self.connected
    subscribed_topics,  \* self.subscribed_topics
    message_callbacks,  \* self.message_callbacks: a dict, kept in insertion order
    device_data,        \* self.device_data: serial -> mapping
    message_queue,      \* self._message_queue: items put and not yet got
    workers,            \* the _message_worker tasks created so far; the last one is
                        \* self._worker_task
    loop_tasks,         \* the event loop's ready queue: tasks run in this order
    connect_pc,         \* "idle", or "waiting": an async_connect call sits in its wait loop
    delivered,          \* history: number of messages the transport delivered
    log,                \* history: what the worker did with each item it took
    handler_runs,       \* history: the handler tasks the event loop has run
    registrations,      \* history: every (pattern, handler) given to register_message_callback
    left_in_queue,      \* history: ids of the items that were queued when disconnect() ran
    loss_reported,      \* observer: on_disconnect reported the loss of an established
                        \* connection and disconnect() was not called since
    ret,                \* observer: the last call of a public operation, with what it
                        \* returned (or that it has entered its wait loop)
    entities,           \* the switch, number and select entity of one device: their
                        \* local values and the state last written to the host
    device_state,       \* PowerOceanProtobufHandler.device_state: device id -> mapping
    record_fields,      \* the field entries a binary record was encoded from
    msg_topic,          \* the topic of the message the decoder is given
    msg_payload,        \* the payload the decoder is given: a sequence of bytes
    decoded,            \* what the decoder returned, once it has
    response,           \* the cloud document the snapshot normalizer is given
    datapoints,         \* the content of datapoints.json: report -> field names
    sensors,            \* the mapping _get_sensors builds in the current call
    processed,          \* the reports the current call has gone through, in order
    results,            \* what the calls of _get_sensors made so far returned
    unit_key,           \* the field name __get_unit is given
    unit_found          \* <<u>> once __get_unit has returned u, <<>> before

prog == <<mqtt_client, clients_created, loop_running, connected, subscribed_topics,
          message_callbacks, device_data, message_queue, workers, loop_tasks,
          connect_pc>>

vars == <<mqtt_client, clients_created, loop_running, connected, subscribed_topics,
          message_callbacks, device_data, message_queue, workers, loop_tasks,
          connect_pc, delivered, log, handler_runs, registrations,
          left_in_queue, loss_reported, ret, entities, device_state,
          record_fields, msg_topic, msg_payload, decoded,
          response, datapoints, sensors, processed, results,
          unit_key, unit_found>>

\* the components beside the stream session manager
decoder_vars == <<record_fields, msg_topic, msg_payload, decoded>>
unit_vars == <<unit_key, unit_found>>
normalizer_vars == <<response, datapoints, sensors, processed, results, unit_vars>>
beyond == <<entities, device_state, decoder_vars, normalizer_vars>>

\* a returned call: the operation, its argument, what it returned, whether
\* self.connected held when it was called, whether it reached the transport
\* (subscribe: the three subscribes were issued; publish: the message was handed
\* over; connect: a client was created and a connection attempt started;
\* disconnect: a client was released), whether a connection loss was on record,
\* whether it raised to its caller; for get_device_data the mapping it returned:
\* the live dict of a device or a dict of the caller's own, and what that
\* mapping held when it was returned
Call(op, arg, result, conn, issued, lost, raised) ==
    [op |-> op, arg |-> arg, result |-> result, conn |-> conn,
     issued |-> issued, lost |-> lost, raised |-> raised,
     live |-> FALSE, atCall |-> [k \in {} |-> 0], tick |-> 0]

NoCall == Call("none", <<>>, FALSE, FALSE, FALSE, FALSE, FALSE)

\* the observers: a specification records the calls, or leaves them out; tick
\* alternates, so that a call that returns what the call before it returned is
\* a step all the same
Returned(c) == ret' = [c EXCEPT !.tick = 1 - ret.tick]
Quiet == UNCHANGED <<ret, loss_reported, beyond>>

\* the entities as constructed: switch.py:144, number.py:185, select.py:145;
\* nothing was written to the host yet; the number's value and the written
\* values are <<>> for None and nothing, <<v>> for v
NewEntities ==
    [state |-> FALSE, value |-> <<>>, current_option |-> "None",
     written |-> [state |-> <<>>, value |-> <<>>, current_option |-> "unwritten"]]

\* what the decoder returns: nothing (None), or a mapping with the decoded
\* fields under "values"
Decoded(kind, values) == [done |-> TRUE, kind |-> kind, values |-> values]
NotDecoded == [done |-> FALSE, kind |-> "pending", values |-> <<>>]

\* a task of the event loop: a queue put, a worker step, a handler run
PutTask(m) == [kind |-> "put", msg |-> m, worker |-> 0, handler |-> "none"]
WorkerTask(w) == [kind |-> "worker", msg |-> 0, worker |-> w, handler |-> "none"]
HandlerTask(h, m) == [kind |-> "handler", msg |-> m, worker |-> 0, handler |-> h]

\* the stream session manager as constructed, and its observers
InitManager ==
    /\ mqtt_client = 0
    /\ clients_created = 0
    /\ loop_running = FALSE
    /\ connected = FALSE
    /\ subscribed_topics = {}
    /\ message_callbacks = <<>>
    /\ device_data = EmptyDict
    /\ message_queue = <<>>
    /\ workers = <<>>
    /\ loop_tasks = <<>>
    /\ connect_pc = "idle"
    /\ delivered = 0
    /\ log = <<>>
    /\ handler_runs = <<>>
    /\ registrations = {}
    /\ left_in_queue = {}
    /\ loss_reported = FALSE
    /\ ret = NoCall

\* the decoder before it is given anything
InitDecoder ==
    /\ record_fields = <<>>
    /\ msg_topic = <<>>
    /\ msg_payload = <<>>
    /\ decoded = NotDecoded

\* the snapshot normalizer before it is given a document: Ecoflow.__init__
\* keeps neither a document nor a result
InitNormalizer ==
    /\ response = <<>>
    /\ datapoints = EmptyDict
    /\ sensors = EmptyDict
    /\ processed = <<>>
    /\ results = <<>>
    /\ unit_key = ""
    /\ unit_found = <<>>

Init ==
    /\ InitManager
    /\ entities = NewEntities
    /\ device_state = EmptyDict
    /\ InitDecoder
    /\ InitNormalizer

(* -------------------------- the message worker ------------------------- *)

\* the callbacks whose pattern is in the topic, in dict order
RECURSIVE MatchingCallbacks(_, _)
MatchingCallbacks(cbs, topic) ==
    IF cbs = <<>> THEN <<>>
    ELSE IF Contains(Head(cbs).pattern, topic)
         THEN <<Head(cbs).handler>> \o MatchingCallbacks(Tail(cbs), topic)
         ELSE MatchingCallbacks(Tail(cbs), topic)

\* lines 196-202: the serial is the third segment of the topic, looked up only
\* when some registered pattern is in the topic; <<>> stands for None (and for
\* the empty string, which `if device_sn:` treats alike)
DeviceSnOf(cbs, topic) ==
    IF /\ \E i \in 1..Len(cbs) : Contains(cbs[i].pattern, topic)
       /\ Len(Split(topic)) >= 3
    THEN Split(topic)[3]
    ELSE <<>>

\* lines 205-206: the entry of a device is created on its first message
WithEntry(dd, sn) ==
    IF sn \in DOMAIN dd THEN dd
    ELSE [x \in DOMAIN dd \cup {sn} |-> IF x \in DOMAIN dd THEN dd[x] ELSE EmptyDict]

\* lines 210-211: every property of the payload is assigned over the old value
MergeProperties(cur, data) ==
    [k \in DOMAIN cur \cup DOMAIN data |-> IF k \in DOMAIN data THEN data[k] ELSE cur[k]]

\* lines 191-221, one queue item: the new device_data, the handler tasks
\* created, and the history entry
ProcessItem(dd, m) ==
    LET j == json_loads(m.payload)
        sn == DeviceSnOf(message_callbacks, m.topic)
        dd1 == IF sn # <<>> THEN WithEntry(dd, sn) ELSE dd
        isProp == sn # <<>> /\ Contains(PropertiesWord, m.topic)
        raises == isProp /\ ~j.isDict
        dd2 == IF isProp /\ j.isDict
               THEN [dd1 EXCEPT ![sn] = MergeProperties(dd1[sn], j.data)]
               ELSE dd1
        hs == MatchingCallbacks(message_callbacks, m.topic)
        base == [id |-> m.id, topic |-> m.topic, payload |-> m.payload,
                 expected |-> {r[2] : r \in {q \in registrations : Contains(q[1], m.topic)}},
                 entity |-> {r[2] : r \in {q \in registrations :
                               \E s \in Serials : /\ m.topic = MQTT_TOPIC_DEVICE_PROPERTY(s)
                                                  /\ q[1] = EntityPattern(s)}},
                 stale |-> m.id \in left_in_queue]
        Entry(outcome, merged, after, dispatched) ==
            [id |-> base.id, topic |-> base.topic, payload |-> base.payload,
             expected |-> base.expected, entity |-> base.entity, stale |-> base.stale,
             outcome |-> outcome, merged |-> merged, changed |-> after # dd,
             dispatched |-> dispatched]
    IN  IF ~j.ok
        THEN [dd |-> dd, tasks |-> <<>>, entry |-> Entry("json_error", FALSE, dd, <<>>)]
        ELSE IF raises
        THEN [dd |-> dd1, tasks |-> <<>>, entry |-> Entry("error", FALSE, dd1, <<>>)]
        ELSE [dd |-> dd2,
              tasks |-> [i \in 1..Len(hs) |-> HandlerTask(hs[i], m.id)],
              entry |-> Entry("ok", isProp, dd2, hs)]

\* a get() that hands out the newest item
QueueGet_newest(q) == [item |-> q[Len(q)], rest |-> SubSeq(q, 1, Len(q) - 1)]

\* self._message_queue.get(): the oldest item
QueueGet(q) == [item |-> Head(q), rest |-> Tail(q)]

\* lines 187-223: get() does not suspend while the queue holds items and the
\* loop body awaits nothing else, so a worker step takes every queued item
RECURSIVE Drain(_, _, _, _)
Drain(q, dd, lg, tasks) ==
    IF q = <<>> THEN [dd |-> dd, log |-> lg, tasks |-> tasks]
    ELSE LET g == QueueGet(q)
             r == ProcessItem(dd, g.item)
         IN  Drain(g.rest, r.dd, Append(lg, r.entry), tasks \o r.tasks)

(* ------------------------ the public operations ------------------------ *)

\* a disconnect() that leaves the worker running
CancelWorker_forgets(ws) == ws

\* Task.cancel() on self._worker_task (the worker created last): a worker
\* suspended in get() is woken to receive the CancelledError, a worker whose
\* step is already scheduled receives it when the step runs
CancelWorker(ws) ==
    IF ws = <<>> \/ ws[Len(ws)].st = "done" THEN ws
    ELSE [ws EXCEPT ![Len(ws)] = [st |-> "scheduled", cancel |-> TRUE]]

CancelWakes(ws) == ws # <<>> /\ ws[Len(ws)].st = "waiting"

QueuedIds == {message_queue[i].id : i \in 1..Len(message_queue)}

\* a disconnect() whose finally clause leaves the flag as it is
Release_keeps_connected ==
    /\ workers' = CancelWorker(workers)
    /\ loop_tasks' = IF CancelWakes(workers)
                     THEN Append(loop_tasks, WorkerTask(Len(workers)))
                     ELSE loop_tasks
    /\ loop_running' = FALSE
    /\ mqtt_client' = 0
    /\ connected' = connected
    /\ subscribed_topics' = {}
    /\ left_in_queue' = left_in_queue \cup QueuedIds

\* a disconnect() whose finally clause forgets the subscriptions
Release_keeps_subscriptions ==
    /\ workers' = CancelWorker(workers)
    /\ loop_tasks' = IF CancelWakes(workers)
                     THEN Append(loop_tasks, WorkerTask(Len(workers)))
                     ELSE loop_tasks
    /\ loop_running' = FALSE
    /\ mqtt_client' = 0
    /\ connected' = FALSE
    /\ subscribed_topics' = subscribed_topics
    /\ left_in_queue' = left_in_queue \cup QueuedIds

\* disconnect(), lines 231-246, on an existing client: whatever loop_stop() and
\* the client's disconnect() do or raise, the finally clause runs
Release ==
    /\ workers' = CancelWorker(workers)
    /\ loop_tasks' = IF CancelWakes(workers)
                     THEN Append(loop_tasks, WorkerTask(Len(workers)))
                     ELSE loop_tasks
    /\ loop_running' = FALSE
    /\ mqtt_client' = 0
    /\ connected' = FALSE
    /\ subscribed_topics' = {}
    /\ left_in_queue' = left_in_queue \cup QueuedIds

\* a disconnect() that also resets the device data
disconnect_resets ==
    /\ IF mqtt_client # 0
       THEN Release
       ELSE UNCHANGED <<workers, loop_tasks, loop_running, mqtt_client, connected,
                        subscribed_topics, left_in_queue>>
    /\ device_data' = EmptyDict
    /\ UNCHANGED <<clients_created, message_callbacks, message_queue,
                   connect_pc, delivered, log, handler_runs, registrations>>

\* disconnect(), lines 229-246
disconnect ==
    /\ IF mqtt_client # 0
       THEN Release
       ELSE UNCHANGED <<workers, loop_tasks, loop_running, mqtt_client, connected,
                        subscribed_topics, left_in_queue>>
    /\ UNCHANGED <<clients_created, message_callbacks, device_data, message_queue,
                   connect_pc, delivered, log, handler_runs, registrations>>

disconnect_returns == Call("disconnect", <<>>, TRUE, FALSE, mqtt_client # 0, FALSE, FALSE)

\* an async_connect that makes a client and a worker without a look at the
\* handle
async_connect_existing_renews ==
    /\ mqtt_client # 0
    /\ clients_created' = clients_created + 1
    /\ mqtt_client' = clients_created + 1
    /\ workers' = Append(workers, [st |-> "scheduled", cancel |-> FALSE])
    /\ loop_tasks' = Append(loop_tasks, WorkerTask(Len(workers) + 1))
    /\ UNCHANGED <<loop_running, connected, subscribed_topics, message_callbacks,
                   device_data, message_queue, connect_pc, delivered, log,
                   handler_runs, registrations, left_in_queue>>

\* async_connect, lines 52-53: a client handle exists
async_connect_existing ==
    /\ mqtt_client # 0
    /\ UNCHANGED <<prog, delivered, log, handler_runs, registrations, left_in_queue>>

async_connect_existing_returns ==
    Call("connect", <<>>, connected, FALSE, FALSE, loss_reported, FALSE)

\* async_connect, lines 100-111 and 122-125: the client is created,
\* connect_async or loop_start raises inside the try block, disconnect() runs
\* and the call returns False
async_connect_error ==
    /\ mqtt_client = 0
    /\ connect_pc = "idle"
    /\ clients_created' = clients_created + 1
    /\ Release
    /\ UNCHANGED <<message_callbacks, device_data, message_queue, connect_pc,
                   delivered, log, handler_runs, registrations>>

async_connect_error_returns == Call("connect", <<>>, FALSE, FALSE, TRUE, FALSE, FALSE)

\* async_connect, lines 89-119: the client is created, the network thread and
\* the worker are started, and the caller enters the wait loop
async_connect_start ==
    /\ mqtt_client = 0
    /\ connect_pc = "idle"
    /\ clients_created' = clients_created + 1
    /\ mqtt_client' = clients_created + 1
    /\ loop_running' = TRUE
    /\ workers' = Append(workers, [st |-> "scheduled", cancel |-> FALSE])
    /\ loop_tasks' = Append(loop_tasks, WorkerTask(Len(workers) + 1))
    /\ connect_pc' = "waiting"
    /\ UNCHANGED <<connected, subscribed_topics, message_callbacks, device_data,
                   message_queue, delivered, log, handler_runs, registrations,
                   left_in_queue>>

\* the call has not returned: it is on record as entered
async_connect_start_enters == Call("connecting", <<>>, FALSE, FALSE, TRUE, FALSE, FALSE)

\* async_connect, lines 117-121: the wait loop ends, because self.connected
\* was seen or because ten seconds passed, and self.connected is returned
async_connect_return ==
    /\ connect_pc = "waiting"
    /\ connect_pc' = "idle"
    /\ UNCHANGED <<mqtt_client, clients_created, loop_running, connected,
                   subscribed_topics, message_callbacks, device_data, message_queue,
                   workers, loop_tasks, delivered, log, handler_runs, registrations,
                   left_in_queue>>

\* a wait loop that reports success whatever the flag says
async_connect_returns_hopeful == Call("connect", <<>>, TRUE, FALSE, TRUE, FALSE, FALSE)

async_connect_returns == Call("connect", <<>>, connected, FALSE, TRUE, FALSE, FALSE)

DeviceTopics(sn) == {MQTT_TOPIC_DEVICE_STATUS(sn), MQTT_TOPIC_DEVICE_PROPERTY(sn),
                     MQTT_TOPIC_PROPERTY_SET_RESULT(sn)}

\* the check for an earlier subscription left out
AlreadySubscribed_never(sn) == FALSE

\* line 140: the check for an earlier subscription
AlreadySubscribed(sn) == MQTT_TOPIC_DEVICE_STATUS(sn) \in subscribed_topics

\* subscribes issued without a look at self.connected
IssuesSubscribes_unguarded(sn) == ~AlreadySubscribed(sn) /\ mqtt_client # 0

\* lines 129-146: the three transport subscribes are issued
IssuesSubscribes(sn) == connected /\ ~AlreadySubscribed(sn) /\ mqtt_client # 0

\* async_subscribe_to_device, lines 127-159; r1, r2, r3 tell whether the
\* transport accepted each of the three subscribes
async_subscribe_to_device(sn, r1, r2, r3) ==
    /\ subscribed_topics' = IF IssuesSubscribes(sn) /\ r1 /\ r2 /\ r3
                            THEN subscribed_topics \cup DeviceTopics(sn)
                            ELSE subscribed_topics
    /\ UNCHANGED <<mqtt_client, clients_created, loop_running, connected,
                   message_callbacks, device_data, message_queue, workers,
                   loop_tasks, connect_pc, delivered, log, handler_runs,
                   registrations, left_in_queue>>

async_subscribe_to_device_returns(sn, r1, r2, r3) ==
    Call("subscribe", sn,
         connected /\ (AlreadySubscribed(sn) \/ (IssuesSubscribes(sn) /\ r1 /\ r2 /\ r3)),
         connected, IssuesSubscribes(sn), loss_reported, FALSE)

\* a publish that does not look at self.connected
HandsToTransport_unguarded == mqtt_client # 0

\* lines 163-169: the message is handed to the transport
HandsToTransport == connected /\ mqtt_client # 0

\* async_publish, lines 161-177; accepted tells whether the transport took
\* the message (result.rc == MQTT_ERR_SUCCESS, nothing raised)
async_publish(topic, accepted) ==
    UNCHANGED <<prog, delivered, log, handler_runs, registrations, left_in_queue>>

async_publish_returns(topic, accepted) ==
    Call("publish", topic, HandsToTransport /\ accepted, connected, HandsToTransport,
         FALSE, FALSE)

\* dict assignment self.message_callbacks[topic_pattern] = callback
DictSet(cbs, pattern, handler) ==
    IF \E i \in 1..Len(cbs) : cbs[i].pattern = pattern
    THEN [i \in 1..Len(cbs) |-> IF cbs[i].pattern = pattern
                                THEN [pattern |-> pattern, handler |-> handler]
                                ELSE cbs[i]]
    ELSE Append(cbs, [pattern |-> pattern, handler |-> handler])

\* register_message_callback, lines 179-183
register_message_callback(pattern, handler) ==
    /\ registrations' = registrations \cup {<<pattern, handler>>}
    /\ message_callbacks' = DictSet(message_callbacks, pattern, handler)
    /\ UNCHANGED <<mqtt_client, clients_created, loop_running, connected,
                   subscribed_topics, device_data, message_queue, workers, loop_tasks,
                   connect_pc, delivered, log, handler_runs, left_in_queue>>

\* get_device_data, lines 256-258
get_device_data(sn) ==
    UNCHANGED <<prog, delivered, log, handler_runs, registrations, left_in_queue>>

\* self.device_data.get(device_sn, {}): the stored dict itself when there is
\* one, a new empty dict otherwise
get_device_data_returns(sn) ==
    [Call("get", sn, TRUE, FALSE, FALSE, FALSE, FALSE)
        EXCEPT !.live = sn \in DOMAIN device_data,
               !.atCall = IF sn \in DOMAIN device_data THEN device_data[sn]
                          ELSE EmptyDict]

\* what the caller of get_device_data reads through the mapping it was given:
\* the device's dict as it is now, or its own dict, which nobody else writes
View(c) == IF c.live THEN device_data[c.arg] ELSE c.atCall

(* ------------------- the transport's network thread --------------------- *)

\* on_connect, lines 55-64; rc = 0 is success (no connected_callback is set)
on_connect(rc) ==
    /\ loop_running
    /\ connected' = (rc = 0)
    /\ UNCHANGED <<mqtt_client, clients_created, loop_running, subscribed_topics,
                   message_callbacks, device_data, message_queue, workers, loop_tasks,
                   connect_pc, delivered, log, handler_runs, registrations,
                   left_in_queue>>

\* on_disconnect, lines 66-71 (no disconnect_callback is set)
on_disconnect ==
    /\ loop_running
    /\ connected' = FALSE
    /\ UNCHANGED <<mqtt_client, clients_created, loop_running, subscribed_topics,
                   message_callbacks, device_data, message_queue, workers, loop_tasks,
                   connect_pc, delivered, log, handler_runs, registrations,
                   left_in_queue>>

\* on_message, lines 73-82: the broker delivers on a topic of the session's
\* subscriptions; the payload is decoded as UTF-8 and a task that puts
\* (topic, payload) on the queue is created
on_message(topic, payload) ==
    /\ loop_running
    /\ connected
    /\ topic \in subscribed_topics
    /\ delivered' = delivered + 1
    /\ loop_tasks' = IF IsUtf8(payload)
                     THEN Append(loop_tasks,
                                 PutTask([id |-> delivered + 1, topic |-> topic,
                                          payload |-> payload]))
                     ELSE loop_tasks
    /\ UNCHANGED <<mqtt_client, clients_created, loop_running, connected,
                   subscribed_topics, message_callbacks, device_data, message_queue,
                   workers, connect_pc, log, handler_runs, registrations,
                   left_in_queue>>

(* ---------------------------- the event loop ---------------------------- *)

\* the worker that a put wakes: the first one suspended in get()
Waiting(ws) == {w \in 1..Len(ws) : ws[w].st = "waiting"}
FirstWaiting(ws) == CHOOSE w \in Waiting(ws) : \A v \in Waiting(ws) : w <= v

\* the task created by on_message runs: Queue.put on an unbounded queue
run_put ==
    /\ loop_tasks # <<>>
    /\ Head(loop_tasks).kind = "put"
    /\ message_queue' = Append(message_queue, Head(loop_tasks).msg)
    /\ IF Waiting(workers) # {}
       THEN /\ workers' = [workers EXCEPT ![FirstWaiting(workers)].st = "scheduled"]
            /\ loop_tasks' = Append(Tail(loop_tasks), WorkerTask(FirstWaiting(workers)))
       ELSE /\ workers' = workers
            /\ loop_tasks' = Tail(loop_tasks)
    /\ UNCHANGED <<mqtt_client, clients_created, loop_running, connected,
                   subscribed_topics, message_callbacks, device_data, connect_pc,
                   delivered, log, handler_runs, registrations, left_in_queue>>

\* _message_worker, lines 185-227: a cancelled worker leaves its loop; any
\* other takes the queued items one after the other and suspends in get()
run_worker ==
    /\ loop_tasks # <<>>
    /\ Head(loop_tasks).kind = "worker"
    /\ LET w == Head(loop_tasks).worker
           d == Drain(message_queue, device_data, log, <<>>)
       IN  IF workers[w].cancel
           THEN /\ workers' = [workers EXCEPT ![w].st = "done"]
                /\ loop_tasks' = Tail(loop_tasks)
                /\ UNCHANGED <<message_queue, device_data, log>>
           ELSE /\ workers' = [workers EXCEPT ![w].st = "waiting"]
                /\ loop_tasks' = Tail(loop_tasks) \o d.tasks
                /\ message_queue' = <<>>
                /\ device_data' = d.dd
                /\ log' = d.log
    /\ UNCHANGED <<mqtt_client, clients_created, loop_running, connected,
                   subscribed_topics, message_callbacks, connect_pc, delivered,
                   handler_runs, registrations, left_in_queue>>

\* an event loop that runs the handler task created last
run_handler_newest ==
    /\ loop_tasks # <<>>
    /\ loop_tasks[Len(loop_tasks)].kind = "handler"
    /\ handler_runs' = Append(handler_runs,
                              [handler |-> loop_tasks[Len(loop_tasks)].handler,
                               id |-> loop_tasks[Len(loop_tasks)].msg])
    /\ loop_tasks' = SubSeq(loop_tasks, 1, Len(loop_tasks) - 1)
    /\ UNCHANGED <<mqtt_client, clients_created, loop_running, connected,
                   subscribed_topics, message_callbacks, device_data, message_queue,
                   workers, connect_pc, delivered, log, registrations, left_in_queue>>

\* a task created at line 216 runs: the handler is called with the message
run_handler ==
    /\ loop_tasks # <<>>
    /\ Head(loop_tasks).kind = "handler"
    /\ handler_runs' = Append(handler_runs, [handler |-> Head(loop_tasks).handler,
                                             id |-> Head(loop_tasks).msg])
    /\ loop_tasks' = Tail(loop_tasks)
    /\ UNCHANGED <<mqtt_client, clients_created, loop_running, connected,
                   subscribed_topics, message_callbacks, device_data, message_queue,
                   workers, connect_pc, delivered, log, registrations, left_in_queue>>

(* --------------------------- the specifications ------------------------- *)

\* what the transport answers to the three subscribes of one call: all
\* accepted, or one of them refused
SubscribeResults == {<<TRUE, TRUE, TRUE>>, <<FALSE, TRUE, TRUE>>,
                     <<TRUE, FALSE, TRUE>>, <<TRUE, TRUE, FALSE>>}

\* The stream under the callers and a broker: the operations of the manager
\* that change its state, the transport callbacks and the event loop; the
\* broker sends up to msgs messages drawn from inbound, the consumers register
\* the (pattern, handler) pairs of pairs. The returns of the calls are not
\* recorded, and the calls that only return something (async_publish,
\* get_device_data, async_connect on an existing client) take no step here.
Stream(inbound, pairs, msgs) ==
    \/ clients_created < MaxClients /\ async_connect_error /\ Quiet
    \/ clients_created < MaxClients /\ async_connect_start /\ Quiet
    \/ async_connect_return /\ Quiet
    \/ \E sn \in Serials, r \in SubscribeResults :
          async_subscribe_to_device(sn, r[1], r[2], r[3]) /\ Quiet
    \/ \E r \in pairs :
          /\ r \notin registrations
          /\ Cardinality(registrations) < MaxRegistrations
          /\ register_message_callback(r[1], r[2])
          /\ Quiet
    \/ disconnect /\ Quiet
    \/ \E rc \in {0, 5} : on_connect(rc) /\ Quiet
    \/ on_disconnect /\ Quiet
    \/ \E m \in inbound : delivered < msgs /\ on_message(m[1], m[2]) /\ Quiet
    \/ run_put /\ Quiet
    \/ run_worker /\ Quiet
    \/ run_handler /\ Quiet

\* Two devices, one registered handler, messages that decode and messages
\* that do not.
Next == Stream(InboundOrder, {<<DevicePattern, "h1">>}, MaxMsgs)

Spec == Init /\ [][Next]_vars

\* Every kind of payload, every registration.
NextVariety == Stream(Inbound, Patterns \X Handlers, MaxVarietyMsgs)

SpecVariety == Init /\ [][NextVariety]_vars

\* The calls and their returns: every public operation with what it
\* returned, the transport callbacks, and a little traffic.
NextCalls ==
    \/ /\ async_connect_existing
       /\ Returned(async_connect_existing_returns)
       /\ UNCHANGED <<loss_reported, beyond>>
    \/ /\ clients_created < MaxClients
       /\ async_connect_error
       /\ Returned(async_connect_error_returns)
       /\ loss_reported' = FALSE
       /\ UNCHANGED beyond
    \/ /\ clients_created < MaxClients
       /\ async_connect_start
       /\ Returned(async_connect_start_enters)
       /\ UNCHANGED <<loss_reported, beyond>>
    \/ /\ async_connect_return
       /\ Returned(async_connect_returns)
       /\ UNCHANGED <<loss_reported, beyond>>
    \/ \E sn \in Serials, r \in SubscribeResults :
          /\ async_subscribe_to_device(sn, r[1], r[2], r[3])
          /\ Returned(async_subscribe_to_device_returns(sn, r[1], r[2], r[3]))
          /\ UNCHANGED <<loss_reported, beyond>>
    \/ \E accepted \in BOOLEAN :
          /\ async_publish(EntitySetTopic(<<"A">>), accepted)
          /\ Returned(async_publish_returns(EntitySetTopic(<<"A">>), accepted))
          /\ UNCHANGED <<loss_reported, beyond>>
    \/ /\ <<DevicePattern, "h1">> \notin registrations
       /\ register_message_callback(DevicePattern, "h1")
       /\ Quiet
    \/ /\ disconnect
       /\ Returned(disconnect_returns)
       /\ loss_reported' = FALSE
       /\ UNCHANGED beyond
    \/ \E rc \in {0, 5} : on_connect(rc) /\ Quiet
    \/ /\ on_disconnect
       /\ loss_reported' = (loss_reported \/ connected)
       /\ UNCHANGED <<ret, beyond>>
    \/ /\ delivered < MaxCallMsgs
       /\ on_message(MQTT_TOPIC_DEVICE_PROPERTY(<<"A">>), "objA")
       /\ Quiet
    \/ run_put /\ Quiet
    \/ run_worker /\ Quiet
    \/ run_handler /\ Quiet

SpecCalls == Init /\ [][NextCalls]_vars

\* The stream with a consumer that asks for the state of device A and keeps
\* the mapping it was given.
NextHandle ==
    \/ Stream(InboundHandle, {<<DevicePattern, "h1">>}, MaxMsgs)
    \/ /\ get_device_data(<<"A">>)
       /\ Returned(get_device_data_returns(<<"A">>))
       /\ UNCHANGED <<loss_reported, beyond>>

SpecHandle == Init /\ [][NextHandle]_vars

(* ------------------------------ properties ------------------------------ *)

LogEntries == {log[i] : i \in 1..Len(log)}

\* a step that is a call of async_subscribe_to_device(sn) and records its return
SubscribeCall(sn) ==
    \E r \in SubscribeResults :
        /\ async_subscribe_to_device(sn, r[1], r[2], r[3])
        /\ Returned(async_subscribe_to_device_returns(sn, r[1], r[2], r[3]))

\* the call that returned last was async_subscribe_to_device(sn), made while
\* connected
AfterSubscribe(sn) == ret.op = "subscribe" /\ ret.arg = sn /\ ret.conn

AllDeviceTopics == UNION {DeviceTopics(sn) : sn \in Serials}

\* C1, as stated: while connected, when async_subscribe_to_device(S) is called
\* right after a call of async_subscribe_to_device(S), both calls return True,
\* the three subscribes are issued by at most one of them, and afterwards the
\* set holds the three topics of S.
C1_TwiceInARow ==
    [][\A sn \in Serials :
          (AfterSubscribe(sn) /\ connected /\ SubscribeCall(sn))
          => /\ ret.result
             /\ ret'.result
             /\ ~(ret.issued /\ ret'.issued)
             /\ DeviceTopics(sn) \subseteq subscribed_topics'
             /\ subscribed_topics' \subseteq AllDeviceTopics]_vars

\* C1, amended: while connected, when async_subscribe_to_device(S) has returned
\* True, a call of async_subscribe_to_device(S) right after it returns True,
\* issues no subscribe and leaves the set as it is, with the three topics of S
\* in it.
C1_Idempotent ==
    [][\A sn \in Serials :
          (AfterSubscribe(sn) /\ ret.result /\ connected /\ SubscribeCall(sn))
          => /\ ret'.result
             /\ ~ret'.issued
             /\ subscribed_topics' = subscribed_topics
             /\ DeviceTopics(sn) \subseteq subscribed_topics'
             /\ subscribed_topics' \subseteq AllDeviceTopics]_vars

\* a call for device A, made while connected, has returned True without
\* issuing a subscribe: the topics of A were on record from an earlier call
C1_Witness ==
    /\ ret.op = "subscribe" /\ ret.arg = <<"A">>
    /\ ret.conn /\ ret.result /\ ~ret.issued
    /\ subscribed_topics = DeviceTopics(<<"A">>)

\* a step that is a call of async_publish and records its return
PublishCall ==
    \E accepted \in BOOLEAN :
        /\ async_publish(EntitySetTopic(<<"A">>), accepted)
        /\ Returned(async_publish_returns(EntitySetTopic(<<"A">>), accepted))

\* C2: a call of async_publish made while self.connected is False returns
\* False, hands nothing to the transport, puts nothing on the queue or the
\* event loop, and leaves device_data and subscribed_topics unchanged.
C2_PublishDisconnected ==
    [][(~connected /\ PublishCall)
          => /\ ~ret'.result
             /\ ~ret'.issued
             /\ UNCHANGED <<message_queue, loop_tasks, device_data,
                            subscribed_topics>>]_vars

\* a publish has returned False on a manager that holds a client, has lost its
\* connection, and has device state and subscriptions to leave alone
C2_Witness ==
    /\ ret.op = "publish" /\ ~ret.conn /\ ~ret.result
    /\ mqtt_client # 0 /\ ~connected
    /\ device_data # EmptyDict /\ subscribed_topics # {}

\* a step that is a call of disconnect() and records its return
DisconnectCall == disconnect /\ Returned(disconnect_returns)

\* C3: disconnect() can be called in every state and does not raise; when a
\* call returns, connected is False, the subscribed topics are empty and the
\* client handle is gone; a call of disconnect() right after a call of
\* disconnect() changes nothing.
C3_Disconnect ==
    /\ [](ENABLED DisconnectCall)
    /\ [][DisconnectCall
            => /\ ~ret'.raised
               /\ ~connected'
               /\ subscribed_topics' = {}
               /\ mqtt_client' = 0]_vars
    /\ [][(ret.op = "disconnect" /\ DisconnectCall) => UNCHANGED prog]_vars

\* disconnect() has returned a second time in a row (it found no client to
\* release) on a manager that had a session with subscriptions and traffic
C3_Witness ==
    /\ ret.op = "disconnect" /\ ~ret.issued
    /\ clients_created > 0 /\ log # <<>>

\* the ids of the messages in a sequence of records
Ids(seq) == [i \in 1..Len(seq) |-> seq[i].id]

StrictlyIncreasing(ids) == \A i, j \in 1..Len(ids) : i < j => ids[i] < ids[j]
NonDecreasing(ids) == \A i, j \in 1..Len(ids) : i < j => ids[i] <= ids[j]

IsPut(t) == t.kind = "put"
IsHandler(t) == t.kind = "handler"

\* the messages in the order the worker has taken and will take them: taken,
\* queued, and waiting in a put task
Pipeline ==
    Ids(log) \o Ids(message_queue)
    \o [i \in 1..Len(SelectSeq(loop_tasks, IsPut)) |->
           SelectSeq(loop_tasks, IsPut)[i].msg.id]

\* the messages of the handler calls in the order they ran and will run
Dispatches ==
    Ids(handler_runs)
    \o [i \in 1..Len(SelectSeq(loop_tasks, IsHandler)) |->
           SelectSeq(loop_tasks, IsHandler)[i].msg]

\* C4: the worker takes the messages, merges them and dispatches their
\* callbacks in the order on_message received them (the ids count the
\* receptions): no message overtakes an earlier one on its way through the put
\* tasks, the queue and the worker, and the handler calls run in that order.
C4_Order == StrictlyIncreasing(Pipeline) /\ NonDecreasing(Dispatches)

\* two messages of two devices were merged and dispatched
C4_Witness ==
    /\ Len(log) >= 2
    /\ log[1].topic # log[2].topic
    /\ log[1].merged /\ log[2].merged
    /\ Len(handler_runs) >= 2
    /\ handler_runs[1].id # handler_runs[2].id

\* C5: for every message the worker decoded and processed, every handler ever
\* given to register_message_callback under a pattern that is in the topic was
\* dispatched, handlers registered under one pattern string included.
C5_AllHandlers ==
    \A e \in LogEntries :
        e.outcome = "ok" => e.expected \subseteq {e.dispatched[i] : i \in 1..Len(e.dispatched)}

\* C6: every JSON object received on the property topic of a subscribed
\* device S, with an entity handler registered for S, is merged into
\* device_data[S] and dispatched to the entity handler once the worker has
\* taken it.
C6_EntityDelivery ==
    \A e \in LogEntries :
        (e.entity # {} /\ json_loads(e.payload).ok /\ json_loads(e.payload).isDict)
        => /\ e.merged
           /\ e.entity \subseteq {e.dispatched[i] : i \in 1..Len(e.dispatched)}

\* C7: a message that cannot be decoded, or whose processing raises, is
\* dropped: it leaves device_data as it was and dispatches nothing, and the
\* worker goes on to the messages behind it (the worker that took it is not
\* done unless it was cancelled).
C7_Dropped ==
    \A e \in LogEntries :
        e.outcome # "ok" => ~e.changed /\ e.dispatched = <<>>

\* C8: a message that was in the queue when disconnect() ran is never merged
\* into device_data and never dispatched.
C8_Discarded ==
    \A e \in LogEntries : e.stale => ~e.merged /\ e.dispatched = <<>>

\* C9: when async_connect was called after on_disconnect reported the loss of
\* the connection (and disconnect() was not called), and
\* async_subscribe_to_device(S) is called next, the connect call had made a
\* fresh connection attempt and the subscribe call returns True only if it
\* issued the three subscribes.
C9_Reconnect ==
    [][\A sn \in Serials :
          (ret.op = "connect" /\ ret.lost /\ SubscribeCall(sn))
          => /\ ret.issued
             /\ (ret'.result => ret'.issued)]_vars

\* C10: what a caller reads through the mapping get_device_data returned is
\* what the mapping held when it was returned, whatever the worker merged
\* since.
C10_Snapshot == ret.op = "get" => View(ret) = ret.atCall

(* ----------------- the switch, number and select entities --------------- *)

\* the entities of device A publish to this topic: switch.py:209,
\* number.py:277, select.py:218
SetTopic == EntitySetTopic(<<"A">>)

\* success = await self.mqtt_client.async_publish(topic, json.dumps(payload))
PublishSucceeds(accepted) == async_publish_returns(SetTopic, accepted).result

\* a _set_state that does not look at what async_publish returned
switch_set_state_regardless(state, accepted) ==
    /\ async_publish(SetTopic, accepted)
    /\ entities' = [entities EXCEPT !.state = state, !.written.state = <<state>>]

\* PowerOceanSwitch._set_state, switch.py:207-215
switch_set_state(state, accepted) ==
    /\ async_publish(SetTopic, accepted)
    /\ entities' = IF PublishSucceeds(accepted)
                   THEN [entities EXCEPT !.state = state, !.written.state = <<state>>]
                   ELSE entities

\* the number entity for the charge current: number.py:81-83
NumberMin == 3
NumberMax == 15
NumberStep == 1

\* the values a caller asks for, in halves: 2.0, 5.5, 6.5, 20.0
NumberInputs == {4, 11, 13, 40}

\* Python's round() of h/2: to the nearest integer, a tie to the even one
PyRoundHalves(h) ==
    IF h % 2 = 0 THEN h \div 2
    ELSE LET lo == (h - 1) \div 2
         IN  IF lo % 2 = 0 THEN lo ELSE lo + 1

\* a setter that does not keep the value within the bounds
ClampNumber_none(v) == v

\* min and max of number.py:271
ClampNumber(v) ==
    LET capped == IF v < NumberMax THEN v ELSE NumberMax
    IN  IF capped > NumberMin THEN capped ELSE NumberMin

\* number.py:268-275: rounded to the step, kept within the bounds, an int
\* because the step is whole
NormalizedNumber(h) == ClampNumber(PyRoundHalves(h) * NumberStep)

\* PowerOceanNumber.async_set_native_value, number.py:265-283; the step is
\* passed as an int (number.py:83), and whether an int has is_integer()
\* (line 274) depends on the Python version: without it the call raises
\* before it publishes
number_async_set_native_value(h, has_is_integer, accepted) ==
    /\ async_publish(SetTopic, accepted)
    /\ entities' = IF has_is_integer /\ PublishSucceeds(accepted)
                   THEN [entities EXCEPT !.value = <<NormalizedNumber(h)>>,
                                         !.written.value = <<NormalizedNumber(h)>>]
                   ELSE entities

\* what the manager was asked: the publish, or nothing when line 274 raised
number_async_set_native_value_asks(h, has_is_integer, accepted) ==
    IF has_is_integer THEN async_publish_returns(SetTopic, accepted)
    ELSE Call("set", SetTopic, FALSE, connected, FALSE, FALSE, TRUE)

\* the options of a select entity (select.py:25-30) and something else
OptionsMap == {"Standard", "Silent"}
OptionInputs == OptionsMap \cup {"Unknown"}

\* PowerOceanSelect.async_select_option, select.py:211-224; an option that is
\* not in the map is logged and nothing is published
select_async_select_option(option, accepted) ==
    /\ async_publish(SetTopic, accepted)
    /\ entities' = IF option \in OptionsMap /\ PublishSucceeds(accepted)
                   THEN [entities EXCEPT !.current_option = option,
                                         !.written.current_option = option]
                   ELSE entities

\* what the manager was asked: the publish, or nothing for an unknown option
select_async_select_option_asks(option, accepted) ==
    IF option \in OptionsMap THEN async_publish_returns(SetTopic, accepted)
    ELSE Call("set", SetTopic, FALSE, connected, FALSE, FALSE, FALSE)

\* The entities over a session of the manager: the session is set up, lost
\* and closed, and the entities are set; a set operation records what its
\* publish returned.
NextEntities ==
    \/ clients_created < MaxClients /\ async_connect_start /\ Quiet
    \/ async_connect_return /\ Quiet
    \/ disconnect /\ Quiet
    \/ \E rc \in {0, 5} : on_connect(rc) /\ Quiet
    \/ on_disconnect /\ Quiet
    \/ run_worker /\ Quiet
    \/ \E state \in BOOLEAN, accepted \in BOOLEAN :
          /\ switch_set_state(state, accepted)
          /\ Returned(async_publish_returns(SetTopic, accepted))
          /\ UNCHANGED <<loss_reported, device_state, decoder_vars, normalizer_vars>>
    \/ \E h \in NumberInputs, has_is_integer \in BOOLEAN, accepted \in BOOLEAN :
          /\ number_async_set_native_value(h, has_is_integer, accepted)
          /\ Returned(number_async_set_native_value_asks(h, has_is_integer, accepted))
          /\ UNCHANGED <<loss_reported, device_state, decoder_vars, normalizer_vars>>
    \/ \E option \in OptionInputs, accepted \in BOOLEAN :
          /\ select_async_select_option(option, accepted)
          /\ Returned(select_async_select_option_asks(option, accepted))
          /\ UNCHANGED <<loss_reported, device_state, decoder_vars, normalizer_vars>>

SpecEntities == Init /\ [][NextEntities]_vars

\* a step that is a set operation of the switch, with what its publish returned
SwitchSet(state) ==
    \E accepted \in BOOLEAN :
        /\ switch_set_state(state, accepted)
        /\ Returned(async_publish_returns(SetTopic, accepted))

NumberSet(h) ==
    \E has_is_integer \in BOOLEAN, accepted \in BOOLEAN :
        /\ number_async_set_native_value(h, has_is_integer, accepted)
        /\ Returned(number_async_set_native_value_asks(h, has_is_integer, accepted))

SelectSet(option) ==
    \E accepted \in BOOLEAN :
        /\ select_async_select_option(option, accepted)
        /\ Returned(select_async_select_option_asks(option, accepted))

\* C11: a set operation of the switch, the number or the select entity sets
\* the entity's local value to the value asked for, and writes it to the host,
\* if and only if its publish returned True; when the publish returned False
\* (the manager is not connected, or the transport refused), or when the
\* operation did not get as far as publishing, the local values and the
\* written state are unchanged.
C11_SetOnSuccess ==
    [][/\ \A state \in BOOLEAN :
             SwitchSet(state)
             => /\ ~connected => ~ret'.result
                /\ IF ret'.result
                   THEN entities' = [entities EXCEPT !.state = state,
                                                     !.written.state = <<state>>]
                   ELSE UNCHANGED entities
       /\ \A h \in NumberInputs :
             NumberSet(h)
             => /\ ~connected => ~ret'.result
                /\ IF ret'.result
                   THEN entities' = [entities EXCEPT
                                        !.value = <<NormalizedNumber(h)>>,
                                        !.written.value = <<NormalizedNumber(h)>>]
                   ELSE UNCHANGED entities
       /\ \A option \in OptionInputs :
             SelectSet(option)
             => /\ ~connected => ~ret'.result
                /\ IF ret'.result
                   THEN entities' = [entities EXCEPT
                                        !.current_option = option,
                                        !.written.current_option = option]
                   ELSE UNCHANGED entities]_vars

\* the switch was turned on and written, and a later set operation whose
\* publish returned False on a lost connection left the three entities as set
C11_Witness ==
    /\ ret.op = "publish" /\ ~ret.result /\ ~ret.conn
    /\ entities.state /\ entities.written.state = <<TRUE>>
    /\ entities.value = <<6>> /\ entities.written.value = <<6>>
    /\ entities.current_option = "Silent"

(* ------------------- the handler's device state merge ------------------- *)

\* a value of a mapping: a mapping itself, or anything else (a number here)
Dict(m) == [kind |-> "dict", v |-> m]
Scalar(n) == [kind |-> "scalar", v |-> n]
IsDict(x) == x.kind = "dict"

\* {k: x} and {k1: x1, k2: x2}
One(k, x) == [j \in {k} |-> x]
Two(k1, x1, k2, x2) == [j \in {k1, k2} |-> IF j = k1 THEN x1 ELSE x2]

\* a merge that replaces every key it is given
merge_state_shallow(current, new_data) ==
    [k \in DOMAIN current \cup DOMAIN new_data |->
        IF k \in DOMAIN new_data THEN new_data[k] ELSE current[k]]

\* _merge_state, protobuf_handler.py:171-177
RECURSIVE merge_state(_, _)
merge_state(current, new_data) ==
    [k \in DOMAIN current \cup DOMAIN new_data |->
        IF k \notin DOMAIN new_data THEN current[k]
        ELSE IF IsDict(new_data[k]) /\ k \in DOMAIN current /\ IsDict(current[k])
             THEN Dict(merge_state(current[k].v, new_data[k].v))
             ELSE new_data[k]]

\* the updates the handler is given
Updates ==
    {One("x", Scalar(1)),
     One("y", Scalar(2)),
     One("x", Dict(One("a", Scalar(1)))),
     One("x", Dict(One("b", Scalar(2)))),
     One("x", Dict(Two("a", Scalar(2), "b", Scalar(1)))),
     One("x", Dict(One("a", Dict(One("c", Scalar(1)))))),
     One("x", Dict(One("a", Dict(One("d", Scalar(2)))))),
     Two("x", Dict(One("b", Scalar(1))), "y", Dict(One("a", Scalar(1))))}

DeviceIds == {"A", "B"}

\* update_device_state, protobuf_handler.py:163-169
update_device_state(device_id, data) ==
    /\ device_state' =
          [d \in DOMAIN device_state \cup {device_id} |->
              IF d # device_id THEN device_state[d]
              ELSE merge_state(IF d \in DOMAIN device_state THEN device_state[d]
                               ELSE EmptyDict,
                               data)]
    /\ UNCHANGED <<prog, delivered, log, handler_runs, registrations,
                   left_in_queue, loss_reported, entities, decoder_vars,
                   normalizer_vars>>

update_device_state_returns(device_id, data) ==
    Call("update", [device_id |-> device_id, data |-> data], TRUE, FALSE, FALSE,
         FALSE, FALSE)

\* The handler under a caller that updates the states of two devices.
NextMerge ==
    \E device_id \in DeviceIds, data \in Updates :
        /\ update_device_state(device_id, data)
        /\ Returned(update_device_state_returns(device_id, data))

SpecMerge == Init /\ [][NextMerge]_vars

\* the state of a device before it has one
StateOf(ds, device_id) == IF device_id \in DOMAIN ds THEN ds[device_id] ELSE EmptyDict

\* after is before with upd merged deeply into it
RECURSIVE DeepMerged(_, _, _)
DeepMerged(before, upd, after) ==
    /\ DOMAIN after = DOMAIN before \cup DOMAIN upd
    /\ \A k \in DOMAIN before \ DOMAIN upd : after[k] = before[k]
    /\ \A k \in DOMAIN upd :
          IF k \in DOMAIN before /\ IsDict(before[k]) /\ IsDict(upd[k])
          THEN /\ IsDict(after[k])
               /\ DeepMerged(before[k].v, upd[k].v, after[k].v)
          ELSE after[k] = upd[k]

\* C12: update_device_state merges deeply: under a key where the state and the
\* update both hold mappings, the two are merged recursively and the keys the
\* update does not have survive; in every other case the update's value
\* replaces the old one; keys the update does not mention, and the other
\* devices, are unchanged.
C12_DeepMerge ==
    [][\A device_id \in DeviceIds, data \in Updates :
          (/\ update_device_state(device_id, data)
           /\ Returned(update_device_state_returns(device_id, data)))
          => /\ DeepMerged(StateOf(device_state, device_id), data,
                           device_state'[device_id])
             /\ \A d \in DOMAIN device_state \ {device_id} :
                   device_state'[d] = device_state[d]]_vars

\* an update with a nested mapping was merged into a nested mapping that
\* keeps a key of its own, two levels down
C12_Witness ==
    /\ ret.op = "update" /\ ret.arg.device_id = "A"
    /\ ret.arg.data = One("x", Dict(One("a", Dict(One("d", Scalar(2))))))
    /\ "A" \in DOMAIN device_state
    /\ device_state["A"] =
          Two("x", Dict(Two("a", Dict(Two("c", Scalar(1), "d", Scalar(2))),
                            "b", Scalar(1))),
              "y", Scalar(2))

(* ------------------------ the Varint/TLV decoder ------------------------ *)

\* a decoded value: an int, or the bytes of a length-delimited field
IntValue(n) == [int |-> TRUE, n |-> n, bytes |-> <<>>]
BytesValue(b) == [int |-> FALSE, n |-> 0, bytes |-> b]

\* Python's b[lo:hi] on a sequence of bytes, offsets counted from 0
Slice(b, lo, hi) == SubSeq(b, lo + 1, IF hi < Len(b) THEN hi ELSE Len(b))

\* values[field_id] = val
Put(values, field_id, val) ==
    [f \in DOMAIN values \cup {field_id} |-> IF f = field_id THEN val ELSE values[f]]

RECURSIVE Power(_, _)
Power(b, e) == IF e = 0 THEN 1 ELSE b * Power(b, e - 1)

\* a varint decoder that returns what it has when the bytes run out
RECURSIVE decode_varint_lenient(_, _, _, _)
decode_varint_lenient(buffer, offset, value, shift) ==
    IF offset >= Len(buffer) THEN [ok |-> TRUE, value |-> value, read |-> offset]
    ELSE LET b == buffer[offset + 1]
             v == IF b % 128 = 0 THEN value
                  ELSE value + (b % 128) * Power(2, shift)
         IN  IF b >= 128
             THEN decode_varint_lenient(buffer, offset + 1, v, shift + 7)
             ELSE [ok |-> TRUE, value |-> v, read |-> offset + 1]

\* a varint decoder that shifts by a whole byte
RECURSIVE decode_varint_byte_shift(_, _, _, _)
decode_varint_byte_shift(buffer, offset, value, shift) ==
    IF offset >= Len(buffer) THEN [ok |-> FALSE, value |-> 0, read |-> 0]
    ELSE LET b == buffer[offset + 1]
             v == IF b % 128 = 0 THEN value
                  ELSE value + (b % 128) * Power(2, shift)
         IN  IF b >= 128
             THEN decode_varint_byte_shift(buffer, offset + 1, v, shift + 8)
             ELSE [ok |-> TRUE, value |-> v, read |-> offset + 1]

\* _decode_varint, protobuf_handler.py:142-161, from its loop variables on;
\* ok is FALSE where it raises ValueError("Malformed varint"); the groups of
\* seven bits do not overlap, so |= adds
RECURSIVE decode_varint(_, _, _, _)
decode_varint(buffer, offset, value, shift) ==
    IF offset >= Len(buffer) THEN [ok |-> FALSE, value |-> 0, read |-> 0]
    ELSE LET b == buffer[offset + 1]
             v == IF b % 128 = 0 THEN value
                  ELSE value + (b % 128) * Power(2, shift)
         IN  IF b >= 128
             THEN decode_varint(buffer, offset + 1, v, shift + 7)
             ELSE [ok |-> TRUE, value |-> v, read |-> offset + 1]

\* the number a little-endian byte string stands for
RECURSIVE LittleEndian(_)
LittleEndian(b) == IF b = <<>> THEN 0 ELSE Head(b) + 256 * LittleEndian(Tail(b))

\* struct.unpack("<Q", b) and struct.unpack("<I", b): b must have the exact size
Unpack(b, size) ==
    IF Len(b) = size THEN [ok |-> TRUE, value |-> LittleEndian(b)]
    ELSE [ok |-> FALSE, value |-> 0]

ParseFailed == [ok |-> FALSE, values |-> EmptyDict]

\* an unknown wire type as a failure of the whole message
unknown_wire_type_fails(values) == ParseFailed

\* lines 98-100: the loop is left and what was parsed is returned
unknown_wire_type(values) == [ok |-> TRUE, values |-> values]

\* the loop of _decode_property_message, protobuf_handler.py:72-100; ok is
\* FALSE where an exception leaves the loop
RECURSIVE ParseFields(_, _, _)
ParseFields(msg, offset, values) ==
    IF offset >= Len(msg) THEN [ok |-> TRUE, values |-> values]
    ELSE LET field_id == msg[offset + 1] \div 8
             wire_type == msg[offset + 1] % 8
             at == offset + 1
             vi == decode_varint(Slice(msg, at, Len(msg)), 0, 0, 0)
             q == Unpack(Slice(msg, at, at + 8), 8)
             w == Unpack(Slice(msg, at, at + 4), 4)
         IN  CASE wire_type = 0 ->
                    IF vi.ok
                    THEN ParseFields(msg, at + vi.read,
                                     Put(values, field_id, IntValue(vi.value)))
                    ELSE ParseFailed
               [] wire_type = 1 ->
                    IF q.ok
                    THEN ParseFields(msg, at + 8, Put(values, field_id, IntValue(q.value)))
                    ELSE ParseFailed
               [] wire_type = 2 ->
                    IF vi.ok
                    THEN ParseFields(msg, at + vi.read + vi.value,
                                     Put(values, field_id,
                                         BytesValue(Slice(msg, at + vi.read,
                                                          at + vi.read + vi.value))))
                    ELSE ParseFailed
               [] wire_type = 5 ->
                    IF w.ok
                    THEN ParseFields(msg, at + 4, Put(values, field_id, IntValue(w.value)))
                    ELSE ParseFailed
               [] OTHER -> unknown_wire_type(values)

\* struct.unpack(">I", payload[:4]): a prefix of 2^31 and more is kept as
\* 2^31 - 1, the largest number there is here; it is only compared with the
\* lengths of payloads, which are far smaller
BigEndian32(b) ==
    IF b[1] >= 128 THEN 2147483647
    ELSE ((b[1] * 256 + b[2]) * 256 + b[3]) * 256 + b[4]

\* _decode_property_message, protobuf_handler.py:46-106
decode_property_message(p) ==
    IF Len(p) < 4 THEN Decoded("none", EmptyDict)
    ELSE LET msg_len == BigEndian32(p)
         IN  IF Len(p) - 4 < msg_len THEN Decoded("none", EmptyDict)
             ELSE LET r == ParseFields(Slice(p, 4, 4 + msg_len), 0, EmptyDict)
                  IN  IF r.ok THEN Decoded("values", r.values)
                      ELSE Decoded("none", EmptyDict)

\* the decoder is given the payload and returns
decode_property_message_call ==
    /\ ~decoded.done
    /\ decoded' = decode_property_message(msg_payload)
    /\ UNCHANGED <<prog, delivered, log, handler_runs, registrations, left_in_queue,
                   loss_reported, ret, entities, device_state, record_fields,
                   msg_topic, msg_payload, normalizer_vars>>

NextDecode == decode_property_message_call

(* --------------------- an encoder of binary records --------------------- *)

\* a field of a record: its number, its wire type and its value
Entry(field, wire_type, value) ==
    [field |-> field, wire_type |-> wire_type, value |-> value]

SupportedWireTypes == {0, 1, 2, 5}

\* a value as a varint: seven bits a byte, the low ones first, the high bit
\* set on every byte but the last
RECURSIVE EncodeVarint(_)
EncodeVarint(n) ==
    IF n < 128 THEN <<n>> ELSE <<128 + (n % 128)>> \o EncodeVarint(n \div 128)

\* a value in size bytes, the low ones first
RECURSIVE EncodeFixed(_, _)
EncodeFixed(n, size) ==
    IF size = 0 THEN <<>> ELSE <<n % 256>> \o EncodeFixed(n \div 256, size - 1)

\* a field: one leading byte with the field number in its upper bits and the
\* wire type in its low three bits, then the value; a field of a wire type
\* that is not supported is its leading byte and the bytes it came with
EncodeField(e) ==
    <<e.field * 8 + e.wire_type>> \o
    CASE e.wire_type = 0 -> EncodeVarint(e.value.n)
      [] e.wire_type = 1 -> EncodeFixed(e.value.n, 8)
      [] e.wire_type = 2 -> EncodeVarint(Len(e.value.bytes)) \o e.value.bytes
      [] e.wire_type = 5 -> EncodeFixed(e.value.n, 4)
      [] OTHER -> e.value.bytes

RECURSIVE EncodeBody(_)
EncodeBody(es) == IF es = <<>> THEN <<>> ELSE EncodeField(Head(es)) \o EncodeBody(Tail(es))

\* a length as a big-endian unsigned 32-bit number
LengthPrefix(n) ==
    <<(n \div 16777216) % 256, (n \div 65536) % 256, (n \div 256) % 256, n % 256>>

\* a record: the length of the body, then the body
Encode(es) == LengthPrefix(Len(EncodeBody(es))) \o EncodeBody(es)

\* the field numbers, and the values of each wire type, that records are
\* made of: one-byte and two-byte varints, the largest number there is here as
\* a 64-bit value, an empty and a two-byte string, a 32-bit value
FieldNumbers == {1, 2, 31}

ValuesOf(wire_type) ==
    CASE wire_type = 0 -> {IntValue(0), IntValue(1), IntValue(300)}
      [] wire_type = 1 -> {IntValue(2147483647)}
      [] wire_type = 2 -> {BytesValue(<<>>), BytesValue(<<8, 1>>)}
      [] wire_type = 5 -> {IntValue(5)}

SupportedEntries ==
    UNION {{Entry(f, wt, v) : f \in FieldNumbers, v \in ValuesOf(wt)} :
           wt \in SupportedWireTypes}

\* fields of the wire types that are not supported, alone and followed by
\* bytes that would be a field
UnknownEntries ==
    {Entry(2, wt, BytesValue(junk)) : wt \in {3, 4, 6, 7}, junk \in {<<>>, <<8, 1>>}}

\* the records of up to MaxFields of the entries, no field number twice
Records(entries) ==
    {es \in UNION {[1..n -> entries] : n \in 0..MaxFields} :
        \A i, j \in DOMAIN es : es[i].field = es[j].field => i = j}

\* the mapping of field numbers to values that a record stands for
AsMapping(es) ==
    [f \in {es[i].field : i \in DOMAIN es} |->
        es[CHOOSE i \in DOMAIN es : es[i].field = f].value]

\* the entries of a record before its first field of an unsupported wire type
RECURSIVE BeforeUnknown(_)
BeforeUnknown(es) ==
    IF es = <<>> \/ Head(es).wire_type \notin SupportedWireTypes THEN <<>>
    ELSE <<Head(es)>> \o BeforeUnknown(Tail(es))

\* everything but the decoder's input as constructed
InitAround ==
    /\ InitManager
    /\ entities = NewEntities
    /\ device_state = EmptyDict
    /\ decoded = NotDecoded
    /\ InitNormalizer

\* The decoder on the encoding of every record of supported fields.
InitRoundTrip ==
    /\ InitAround
    /\ msg_topic = <<>>
    /\ record_fields \in Records(SupportedEntries)
    /\ msg_payload = Encode(record_fields)

SpecRoundTrip == InitRoundTrip /\ [][NextDecode]_vars

\* The decoder on the encoding of every record, unsupported wire types
\* included.
InitPartial ==
    /\ InitAround
    /\ msg_topic = <<>>
    /\ record_fields \in Records(SupportedEntries \cup UnknownEntries)
    /\ msg_payload = Encode(record_fields)

SpecPartial == InitPartial /\ [][NextDecode]_vars

\* C13: decoding the length-prefixed encoding of a mapping of field numbers
\* to values of the four supported wire types returns that mapping.
C13_RoundTrip ==
    decoded.done => decoded = Decoded("values", AsMapping(record_fields))

\* a record of a two-byte string and a two-byte varint was decoded
C13_Witness ==
    /\ decoded.done
    /\ record_fields = <<Entry(31, 2, BytesValue(<<8, 1>>)), Entry(1, 0, IntValue(300))>>
    /\ decoded.values[1] = IntValue(300)

\* C15: at a field whose wire type is not 0, 1, 2 or 5 decoding stops, and
\* the result is a mapping (not a failure) of exactly the fields before it.
C15_PartialResult ==
    (/\ decoded.done
     /\ \E i \in DOMAIN record_fields :
           record_fields[i].wire_type \notin SupportedWireTypes)
    => decoded = Decoded("values", AsMapping(BeforeUnknown(record_fields)))

\* a record of a varint and an unsupported field with bytes behind it was
\* decoded to the varint alone
C15_Witness ==
    /\ decoded.done
    /\ record_fields = <<Entry(1, 0, IntValue(300)), Entry(2, 3, BytesValue(<<8, 1>>))>>
    /\ DOMAIN decoded.values = {1}

(* -------------------------- decode_message --------------------------- *)

\* The bytes payloads are made of: 0, 2 and 8 (a length prefix, a leading
\* byte of field 1 with wire type 0, small values) and 55, the digit "7",
\* which is JSON and is a character of the base64 alphabet.
PayloadBytes == {0, 2, 8, 55}

ByteStrings == UNION {[1..n -> PayloadBytes] : n \in 0..MaxPayloadLen}

\* json.detect_encoding, which json.loads (line 25) applies to bytes; no
\* byte string here starts with a byte order mark
detect_encoding(b) ==
    IF Len(b) >= 4 /\ b[1] = 0 THEN (IF b[2] # 0 THEN "utf-16-be" ELSE "utf-32-be")
    ELSE IF Len(b) >= 4 /\ b[2] = 0
         THEN (IF b[3] # 0 \/ b[4] # 0 THEN "utf-16-le" ELSE "utf-32-le")
    ELSE IF Len(b) = 2 /\ b[1] = 0 THEN "utf-16-be"
    ELSE IF Len(b) = 2 /\ b[2] = 0 THEN "utf-16-le"
    ELSE "utf-8"

\* bytes.decode(encoding, "surrogatepass") of json.loads: the code points,
\* or a failure when the bytes are not whole code units or a unit is no code
\* point (a 32-bit unit above 0x10FFFF: a first byte, or a second above 16);
\* every byte here is below 128, so UTF-8 decodes each to itself and no
\* 16-bit unit is a surrogate
DecodeText(b, enc) ==
    LET size == IF enc = "utf-8" THEN 1
                ELSE IF enc \in {"utf-16-be", "utf-16-le"} THEN 2 ELSE 4
        unit(i) == LET u == SubSeq(b, (i - 1) * size + 1, i * size)
                   IN  IF enc \in {"utf-16-le", "utf-32-le"}
                       THEN [k \in 1..size |-> u[size + 1 - k]] ELSE u
        count == Len(b) \div size
    IN  IF Len(b) % size # 0 THEN [ok |-> FALSE, text |-> <<>>]
        ELSE IF size = 4 /\ \E i \in 1..count : unit(i)[1] # 0 \/ unit(i)[2] > 16
        THEN [ok |-> FALSE, text |-> <<>>]
        ELSE [ok |-> TRUE, text |-> [i \in 1..count |-> unit(i)]]

\* a code unit that is the digit "7"
IsSeven(u) == u[Len(u)] = 55 /\ \A k \in 1..(Len(u) - 1) : u[k] = 0

\* json.loads(payload) of line 25: a value when the text is a JSON document
\* (of these characters only a run of digits is one), json.JSONDecodeError
\* when it is not, UnicodeDecodeError when the bytes do not decode
json_loads_bytes(b) ==
    LET t == DecodeText(b, detect_encoding(b))
    IN  IF ~t.ok THEN "UnicodeDecodeError"
        ELSE IF t.text # <<>> /\ \A i \in DOMAIN t.text : IsSeven(t.text[i])
        THEN "value"
        ELSE "JSONDecodeError"

\* base64.b64decode(payload) of line 114: the bytes outside the base64
\* alphabet are discarded; what is left must be whole groups of four
\* characters, and "7777" is the three bytes EF BE FB
RECURSIVE b64decode(_)
b64decode(b) ==
    LET chars == SelectSeq(b, LAMBDA x : x = 55)
    IN  IF Len(chars) % 4 # 0 THEN [ok |-> FALSE, bytes |-> <<>>]
        ELSE IF chars = <<>> THEN [ok |-> TRUE, bytes |-> <<>>]
        ELSE [ok |-> TRUE,
              bytes |-> <<239, 190, 251>> \o b64decode(SubSeq(chars, 5, Len(chars))).bytes]

\* _decode_device_property, lines 108-122
decode_device_property(p) ==
    LET d == b64decode(p)
    IN  decode_property_message(IF d.ok THEN d.bytes ELSE p)

\* _decode_binary_message, lines 124-140: the hex dump of the payload and no
\* values
decode_binary_message(p) == Decoded("raw_hex", EmptyDict)

\* the literals of lines 33 and 35
GetReplyWord == <<"p","r","o","p","e","r","t","y","/","g","e","t","_","r","e","p","l","y">>
SetReplyWord == <<"p","r","o","p","e","r","t","y","/","s","e","t","_","r","e","p","l","y">>
DevicePropertyWord == <<"d","e","v","i","c","e","/","p","r","o","p","e","r","t","y">>

\* decode_message, lines 20-44
decode_message(topic, p) ==
    LET j == json_loads_bytes(p)
    IN  IF j = "value" THEN Decoded("json", EmptyDict)
        ELSE IF j = "UnicodeDecodeError" THEN Decoded("none", EmptyDict)
        ELSE IF Contains(GetReplyWord, topic) \/ Contains(SetReplyWord, topic)
             THEN decode_property_message(p)
        ELSE IF Contains(DevicePropertyWord, topic) THEN decode_device_property(p)
        ELSE decode_binary_message(p)

\* the topics the decoder is given: a reply to a get and to a set, the topic
\* the entities listen to, and the status topic of a device
DecoderTopics ==
    {EntityPattern(<<"g","e","t","_","r","e","p","l","y">>),
     EntityPattern(<<"s","e","t","_","r","e","p","l","y">>),
     EntityPattern(<<"A">>),
     MQTT_TOPIC_DEVICE_STATUS(<<"A">>)}

decode_message_call ==
    /\ ~decoded.done
    /\ decoded' = decode_message(msg_topic, msg_payload)
    /\ UNCHANGED <<prog, delivered, log, handler_runs, registrations, left_in_queue,
                   loss_reported, ret, entities, device_state, record_fields,
                   msg_topic, msg_payload, normalizer_vars>>

NextMessage == decode_message_call

\* The payload decoder on every byte string on every topic.
InitMessage ==
    /\ InitAround
    /\ record_fields = <<>>
    /\ msg_topic \in DecoderTopics
    /\ msg_payload \in ByteStrings

SpecMessage == InitMessage /\ [][NextMessage]_vars

\* the payload is shorter than its 4-byte prefix, or than the prefix and the
\* length it declares
TooShort(p) == Len(p) < 4 \/ Len(p) - 4 < BigEndian32(p)

\* C14: the decoder returns a result or no result for every byte string, and
\* a payload that is not JSON and is shorter than 4 bytes, or than 4 bytes
\* plus the length its prefix declares, yields no result.
C14_ShortPayload ==
    decoded.done =>
        /\ decoded.kind \in {"none", "json", "values", "raw_hex"}
        /\ (json_loads_bytes(msg_payload) # "value" /\ TooShort(msg_payload))
               => decoded.kind = "none"

(* ----------------------- the snapshot normalizer ---------------------- *)

\* calls of _get_sensors in one behaviour
MaxCalls == 2

\* self.sn
Sn == "HJ31"

\* JSON values of a cloud document: a number (num / den, so that a mean is a
\* number too), a list of values, an object as the list of its entries in
\* document order, and a string that holds an encoded object
JNum(n) == [kind |-> "num", num |-> n, den |-> 1, items |-> <<>>]
JList(xs) == [kind |-> "list", num |-> 0, den |-> 1, items |-> xs]
JDict(entries) == [kind |-> "dict", num |-> 0, den |-> 1, items |-> entries]
JText(entries) == [kind |-> "text", num |-> 0, den |-> 1, items |-> <<JDict(entries)>>]

E(key, val) == [key |-> key, val |-> val]

\* `key in d`, d[key] and list(d.keys()) of an object
Has(d, key) == \E i \in DOMAIN d.items : d.items[i].key = key
Get(d, key) == d.items[CHOOSE i \in DOMAIN d.items : d.items[i].key = key].val
KeysOf(d) == [i \in DOMAIN d.items |-> d.items[i].key]

\* str.startswith and str.endswith
StartsWith(s, pre) == Len(s) >= Len(pre) /\ SubSeq(s, 1, Len(pre)) = pre
EndsWith(s, suf) == Len(s) >= Len(suf) /\ SubSeq(s, Len(s) - Len(suf) + 1, Len(s)) = suf

\* a unit inference that looks at the start of the name first
get_unit_prefix_first(key) ==
    IF StartsWith(key, "bpTemp") THEN "degC"
    ELSE IF \E x \in {"pwr", "Pwr", "Power"} : EndsWith(key, x) THEN "W"
    ELSE IF \E x \in {"amp", "Amp"} : EndsWith(key, x) THEN "A"
    ELSE IF \E x \in {"soc", "Soc", "soh", "Soh"} : EndsWith(key, x) THEN "%"
    ELSE IF \E x \in {"vol", "Vol"} : EndsWith(key, x) THEN "V"
    ELSE IF \E x \in {"Watth", "Energy"} : EndsWith(key, x) THEN "Wh"
    ELSE IF Contains("Generation", key) THEN "kWh"
    ELSE "None"

\* __get_unit, ecoflow.py:153-172; "None" is None
get_unit(key) ==
    IF \E x \in {"pwr", "Pwr", "Power"} : EndsWith(key, x) THEN "W"
    ELSE IF \E x \in {"amp", "Amp"} : EndsWith(key, x) THEN "A"
    ELSE IF \E x \in {"soc", "Soc", "soh", "Soh"} : EndsWith(key, x) THEN "%"
    ELSE IF \E x \in {"vol", "Vol"} : EndsWith(key, x) THEN "V"
    ELSE IF \E x \in {"Watth", "Energy"} : EndsWith(key, x) THEN "Wh"
    ELSE IF Contains("Generation", key) THEN "kWh"
    ELSE IF StartsWith(key, "bpTemp") THEN "degC"
    ELSE "None"

\* __get_description, ecoflow.py:174-204
get_description(key) ==
    CASE key = "sysLoadPwr" -> "Hausnetz"
      [] key = "sysGridPwr" -> "Stromnetz"
      [] key = "mpptPwr" -> "Solarertrag"
      [] key = "bpPwr" -> "Batterieleistung"
      [] key = "bpSoc" -> "Ladezustand der Batterie"
      [] key = "online" -> "Online"
      [] key = "systemName" -> "System Name"
      [] key = "createTime" -> "Installations Datum"
      [] key = "bpVol" -> "Batteriespannung"
      [] key = "bpAmp" -> "Batteriestrom"
      [] key = "bpCycles" -> "Ladezyklen"
      [] key = "bpTemp" -> "Temperatur der Batteriezellen"
      [] OTHER -> key

\* __get_sens_select, ecoflow.py:206-211: the file is read at every call
get_sens_select(report) == datapoints[report]

\* config[report] of line 211 finds the report, or is a KeyError
HasSensSelect(report) == report \in DOMAIN datapoints

\* the namedtuple of ecoflow.py:20-23
PowerOceanEndPoint(internal_unique_id, name, friendly_name, value, unit, description, icon) ==
    [internal_unique_id |-> internal_unique_id, serial |-> Sn, name |-> name,
     friendly_name |-> friendly_name, value |-> value, unit |-> unit,
     description |-> description, icon |-> icon]

\* a report's function returned the mapping, or raised
Returns(mapping) == [raised |-> FALSE, sensors |-> mapping]
Raises == [raised |-> TRUE, sensors |-> EmptyDict]

\* an id that leaves the report out
unique_id_unqualified(report, name) == Sn \o "_" \o name

\* f"{self.sn}_{report}_{...}" of lines 274, 310, 343, 362, 388, 407, 429, 452
unique_id(report, name) == Sn \o "_" \o report \o "_" \o name

\* the assignments data[unique_id] = ... of a report in the order they are
\* made, then dict.update(sensors, data): a later one replaces an earlier one
\* under the same key
RECURSIVE WriteAll(_, _)
WriteAll(mapping, writes) ==
    IF writes = <<>> THEN mapping
    ELSE WriteAll(Put(mapping, Head(writes).internal_unique_id, Head(writes)),
                  Tail(writes))

RECURSIVE Flatten(_)
Flatten(seqs) == IF seqs = <<>> THEN <<>> ELSE Head(seqs) \o Flatten(Tail(seqs))

\* response["data"]["quota"][report] of lines 267, 296, 328, 381: the report,
\* or a KeyError
QuotaReport(report) ==
    LET data == Get(response, "data")
    IN  IF Has(data, "quota") /\ Has(Get(data, "quota"), report)
        THEN [ok |-> TRUE, d |-> Get(Get(data, "quota"), report)]
        ELSE [ok |-> FALSE, d |-> JDict(<<>>)]

\* __get_sensors_data, lines 231-263
get_sensors_data ==
    LET d == Get(response, "data")
        sens_select == get_sens_select("data")
        chosen == SelectSeq(d.items,
                            LAMBDA e : e.key \in sens_select /\ e.val.kind # "dict")
        icon(key) == CASE key = "mpptPwr" -> "mdi:solar-power"
                       [] key = "online" -> "mdi:cloud-check"
                       [] key = "sysGridPwr" -> "mdi:transmission-tower-import"
                       [] key = "sysLoadPwr" -> "mdi:home-import-outline"
                       [] OTHER -> "None"
    IN  IF ~HasSensSelect("data") THEN Raises
        ELSE Returns(WriteAll(EmptyDict,
            [i \in DOMAIN chosen |->
                PowerOceanEndPoint(Sn \o "_" \o chosen[i].key, Sn \o "_" \o chosen[i].key,
                                   chosen[i].key, chosen[i].val,
                                   get_unit(chosen[i].key),
                                   get_description(chosen[i].key),
                                   icon(chosen[i].key))]))

\* __get_sensors_energy_stream, lines 265-292
get_sensors_energy_stream ==
    LET report == "JTS1_ENERGY_STREAM_REPORT"
        r == QuotaReport(report)
        sens_select == get_sens_select(report)
        chosen == SelectSeq(r.d.items, LAMBDA e : e.key \in sens_select)
    IN  IF ~r.ok \/ ~HasSensSelect(report) THEN Raises
        ELSE Returns(WriteAll(sensors,
            [i \in DOMAIN chosen |->
                PowerOceanEndPoint(unique_id(report, chosen[i].key),
                                   Sn \o "_" \o chosen[i].key, chosen[i].key,
                                   chosen[i].val, get_unit(chosen[i].key),
                                   get_description(chosen[i].key),
                                   IF StartsWith(chosen[i].key, "pv1")
                                      \/ StartsWith(chosen[i].key, "pv2")
                                   THEN "mdi:solar-power" ELSE "None")]))

\* a pattern that is searched for anywhere in the key
IsFaultCode_anywhere(key) ==
    \E p \in 1..Len(key) :
        /\ p + 3 <= Len(key)
        /\ SubSeq(key, p, p + 3) = "mppt"
        /\ Contains("Code", SubSeq(key, p + 4, Len(key)))

\* re.compile("mppt.*Code").match(key) of lines 302-303: the key starts with
\* mppt and has Code somewhere behind it
IsFaultCode(key) ==
    StartsWith(key, "mppt") /\ Contains("Code", SubSeq(key, 5, Len(key)))

\* __get_sensors_ems_change, lines 294-324
get_sensors_ems_change ==
    LET report == "JTS1_EMS_CHANGE_REPORT"
        r == QuotaReport(report)
        keys == KeysOf(r.d)
        wfc == {keys[i] : i \in {j \in DOMAIN keys : IsFaultCode(keys[j])}}
        sens_select == get_sens_select(report) \cup wfc
        chosen == SelectSeq(r.d.items, LAMBDA e : e.key \in sens_select)
    IN  IF ~r.ok \/ ~HasSensSelect(report) THEN Raises
        ELSE Returns(WriteAll(sensors,
            [i \in DOMAIN chosen |->
                PowerOceanEndPoint(unique_id(report, chosen[i].key),
                                   Sn \o "_" \o chosen[i].key, chosen[i].key,
                                   chosen[i].val, get_unit(chosen[i].key),
                                   get_description(chosen[i].key), "None")]))

\* "%i" % n of line 338
RECURSIVE IntToStr(_)
IntToStr(n) ==
    LET digit(k) == SubSeq("0123456789", k + 1, k + 1)
    IN  IF n < 10 THEN digit(n) ELSE IntToStr(n \div 10) \o digit(n % 10)

\* sum(temp) of line 361, and the sum of the pwr values of lines 447-448
RECURSIVE Sum(_)
Sum(xs) == IF xs = <<>> THEN 0 ELSE Head(xs) + Sum(Tail(xs))

RECURSIVE GCD(_, _)
GCD(a, b) == IF b = 0 THEN a ELSE GCD(b, a % b)

\* a / b of line 361 as a number in lowest terms
Quotient(a, b) ==
    [kind |-> "num", num |-> a \div GCD(a, b), den |-> b \div GCD(a, b), items |-> <<>>]

\* a mean that is the first cell's temperature
mean_of_cells_first(temp) == temp.items[1]

\* sum(temp) / len(temp), line 361
mean_of_cells(temp) ==
    Quotient(Sum([i \in DOMAIN temp.items |-> temp.items[i].num]), Len(temp.items))

\* json_loads(d[bat]) of line 339: the object a string encodes, or a failure
json_loads_text(v) ==
    IF v.kind = "text" /\ v.items # <<>> THEN [ok |-> TRUE, d |-> v.items[1]]
    ELSE [ok |-> FALSE, d |-> JDict(<<>>)]

\* lines 337-373 for the battery of index ibat (from 0) under key bat: the
\* assignments it makes, or that it raises (the string does not parse, there
\* is no bpTemp, or bpTemp is not a list of at least one number)
BatteryWrites(report, ibat, bat, text) ==
    LET name == "bpack" \o IntToStr(ibat + 1) \o "_"
        parsed == json_loads_text(text)
        d_bat == parsed.d
        chosen == SelectSeq(d_bat.items, LAMBDA e : e.key \in get_sens_select(report))
        point(key, value, icon) ==
            PowerOceanEndPoint(unique_id(report, bat \o "_" \o key),
                               Sn \o "_" \o name \o key, name \o key, value,
                               get_unit(key), name \o get_description(key), icon)
    IN  IF \/ ~parsed.ok
           \/ ~Has(d_bat, "bpTemp")
           \/ Get(d_bat, "bpTemp").kind # "list"
           \/ Get(d_bat, "bpTemp").items = <<>>
           \/ \E i \in DOMAIN Get(d_bat, "bpTemp").items :
                 Get(d_bat, "bpTemp").items[i].kind # "num"
        THEN [raised |-> TRUE, writes |-> <<>>]
        ELSE [raised |-> FALSE,
              writes |->
                 [i \in DOMAIN chosen |->
                     point(chosen[i].key, chosen[i].val,
                           IF chosen[i].key = "bpAmp" THEN "mdi:current-dc" ELSE "None")]
                 \o <<point("bpTemp", mean_of_cells(Get(d_bat, "bpTemp")), "None")>>]

\* __get_sensors_battery, lines 326-377
get_sensors_battery ==
    LET report == "JTS1_BP_STA_REPORT"
        r == QuotaReport(report)
        batts == SelectSeq(r.d.items, LAMBDA e : Len(e.key) > 12)
        each == [i \in DOMAIN batts |->
                    BatteryWrites(report, i - 1, batts[i].key, batts[i].val)]
    IN  IF ~r.ok \/ ~HasSensSelect(report) \/ \E i \in DOMAIN each : each[i].raised
        THEN Raises
        ELSE Returns(WriteAll(sensors, Flatten([i \in DOMAIN each |-> each[i].writes])))

\* the value of the loop variable key after loops over the entries of these
\* objects, in this order: the last key of the last object that has one
RECURSIVE KeyAfter(_, _)
KeyAfter(ds, key) ==
    IF ds = <<>> THEN key
    ELSE KeyAfter(Tail(ds),
                  IF Head(ds).items = <<>> THEN key
                  ELSE Head(ds).items[Len(Head(ds).items)].key)

\* a total that is the power of the last string alone
mppt_pv_sum_last(strings) ==
    IF strings = <<>> THEN 0
    ELSE Sum([j \in DOMAIN strings[Len(strings)].items |->
                 IF strings[Len(strings)].items[j].key = "pwr"
                 THEN strings[Len(strings)].items[j].val.num ELSE 0])

\* mpptPv_sum of lines 426 and 447-448: the pwr values of all strings added up
mppt_pv_sum(strings) ==
    Sum([i \in DOMAIN strings |->
            Sum([j \in DOMAIN strings[i].items |->
                    IF strings[i].items[j].key = "pwr"
                    THEN strings[i].items[j].val.num ELSE 0])])

\* __get_sensors_ems_heartbeat, lines 379-467
get_sensors_ems_heartbeat ==
    LET report == "JTS1_EMS_HEARTBEAT"
        r == QuotaReport(report)
        d == r.d
        chosen == SelectSeq(d.items, LAMBDA e : e.key \in get_sens_select(report))
        listed == [i \in DOMAIN chosen |->
                      PowerOceanEndPoint(unique_id(report, chosen[i].key),
                                         Sn \o "_" \o chosen[i].key, chosen[i].key,
                                         chosen[i].val, get_unit(chosen[i].key),
                                         get_description(chosen[i].key), "None")]
        phases == <<"pcsAPhase", "pcsBPhase", "pcsCPhase">>
        hasPhases == Has(d, "pcsBPhase")
        phasesOk == \A i \in DOMAIN phases :
                       Has(d, phases[i]) /\ Get(d, phases[i]).kind = "dict"
        phaseDicts == IF hasPhases /\ phasesOk
                      THEN [i \in DOMAIN phases |-> Get(d, phases[i])] ELSE <<>>
        phaseWrites ==
            Flatten([i \in DOMAIN phaseDicts |->
                [j \in DOMAIN phaseDicts[i].items |->
                    LET key == phaseDicts[i].items[j].key
                        name == phases[i] \o "_" \o key
                    IN  PowerOceanEndPoint(unique_id(report, name), Sn \o "_" \o name,
                                           name, phaseDicts[i].items[j].val,
                                           get_unit(key), get_description(key), "None")]])
        hasMppt == Has(d, "mpptHeartBeat")
        hb == IF hasMppt THEN Get(d, "mpptHeartBeat") ELSE JList(<<>>)
        mpptOk == /\ hb.kind = "list" /\ hb.items # <<>>
                  /\ hb.items[1].kind = "dict" /\ Has(hb.items[1], "mpptPv")
                  /\ Get(hb.items[1], "mpptPv").kind = "list"
                  /\ \A i \in DOMAIN Get(hb.items[1], "mpptPv").items :
                        LET st == Get(hb.items[1], "mpptPv").items[i]
                        IN  /\ st.kind = "dict"
                            /\ \A j \in DOMAIN st.items :
                                  st.items[j].key = "pwr" => st.items[j].val.kind = "num"
        strings == IF hasMppt /\ mpptOk THEN Get(hb.items[1], "mpptPv").items ELSE <<>>
        stringWrites ==
            Flatten([i \in DOMAIN strings |->
                [j \in DOMAIN strings[i].items |->
                    LET key == strings[i].items[j].key
                        mpptpv == "mpptPv" \o IntToStr(i)
                    IN  PowerOceanEndPoint(
                            unique_id(report, "mpptHeartBeat_" \o mpptpv \o "_" \o key),
                            Sn \o "_" \o mpptpv \o "_" \o key, mpptpv \o "_" \o key,
                            strings[i].items[j].val, get_unit(key), get_description(key),
                            IF EndsWith(key, "pwr") THEN "mdi:solar-power"
                            ELSE IF EndsWith(key, "amp") THEN "mdi:current-dc"
                            ELSE "None")]])
        lastKey == KeyAfter(<<d>> \o phaseDicts \o strings, "")
        total == PowerOceanEndPoint(unique_id(report, "mpptHeartBeat_mpptPv_pwrTotal"),
                                    Sn \o "_mpptPv_pwrTotal", "mpptPv_pwrTotal",
                                    JNum(mppt_pv_sum(strings)), get_unit(lastKey),
                                    "Solarertrag aller Strings", "mdi:solar-power")
    IN  IF \/ ~r.ok
           \/ ~HasSensSelect(report)
           \/ (hasPhases /\ ~phasesOk)
           \/ (hasMppt /\ ~mpptOk)
        THEN Raises
        ELSE Returns(WriteAll(sensors,
                 listed \o phaseWrites \o (IF hasMppt THEN stringWrites \o <<total>>
                                           ELSE <<>>)))

\* the reports in the order of the calls of lines 215-227
ReportOrder ==
    <<"data", "JTS1_ENERGY_STREAM_REPORT", "JTS1_EMS_CHANGE_REPORT",
      "JTS1_BP_STA_REPORT", "JTS1_EMS_HEARTBEAT">>

\* a document that has lost its quota object
left_without_quota(document) ==
    JDict(<<E("data", JDict(SelectSeq(Get(document, "data").items,
                                      LAMBDA e : e.key # "quota")))>>)

\* what lines 213-467 leave of the document: __get_sensors_data works on a
\* copy (line 232) and nothing assigns into response or what it holds
left_as_given(document) == document

\* one of the five calls of _get_sensors has returned r, or raised: the call
\* goes on with the next report, returns after the last, or ends by raising
ReportDone(report, r) ==
    /\ response' = left_as_given(response)
    /\ IF r.raised
       THEN /\ results' = Append(results, [raised |-> TRUE, sensors |-> EmptyDict,
                                           processed |-> processed])
            /\ processed' = <<>>
            /\ sensors' = sensors
       ELSE /\ sensors' = r.sensors
            /\ IF Len(processed) + 1 = Len(ReportOrder)
               THEN /\ results' = Append(results,
                                         [raised |-> FALSE, sensors |-> r.sensors,
                                          processed |-> Append(processed, report)])
                    /\ processed' = <<>>
               ELSE /\ processed' = Append(processed, report)
                    /\ results' = results
    /\ UNCHANGED <<prog, delivered, log, handler_runs, registrations, left_in_queue,
                   loss_reported, ret, entities, device_state, decoder_vars,
                   datapoints, unit_vars>>

\* line 215: a call of _get_sensors begins with the top-level fields
get_sensors_data_step ==
    /\ processed = <<>>
    /\ Len(results) < MaxCalls
    /\ ReportDone("data", get_sensors_data)

\* line 218
get_sensors_energy_stream_step ==
    /\ processed = <<"data">>
    /\ ReportDone("JTS1_ENERGY_STREAM_REPORT", get_sensors_energy_stream)

\* line 221
get_sensors_ems_change_step ==
    /\ processed = SubSeq(ReportOrder, 1, 2)
    /\ ReportDone("JTS1_EMS_CHANGE_REPORT", get_sensors_ems_change)

\* line 224
get_sensors_battery_step ==
    /\ processed = SubSeq(ReportOrder, 1, 3)
    /\ ReportDone("JTS1_BP_STA_REPORT", get_sensors_battery)

\* lines 227-229
get_sensors_ems_heartbeat_step ==
    /\ processed = SubSeq(ReportOrder, 1, 4)
    /\ ReportDone("JTS1_EMS_HEARTBEAT", get_sensors_ems_heartbeat)

NextSnapshot ==
    \/ get_sensors_data_step
    \/ get_sensors_energy_stream_step
    \/ get_sensors_ems_change_step
    \/ get_sensors_battery_step
    \/ get_sensors_ems_heartbeat_step

(* ------------------ cloud documents and allow-lists -------------------- *)

\* datapoints.json: the field names to surface, by report; once without and
\* once with the cell temperatures among the battery fields
SensSelect(battery_fields) ==
    [report \in {ReportOrder[i] : i \in DOMAIN ReportOrder} |->
        CASE report = "data" -> {"sysLoadPwr", "sysGridPwr", "mpptPwr", "bpPwr",
                                 "bpSoc", "online", "systemName", "quota"}
          [] report = "JTS1_ENERGY_STREAM_REPORT" ->
                {"sysLoadPwr", "sysGridPwr", "mpptPwr", "bpPwr", "bpSoc", "pv1Pwr"}
          [] report = "JTS1_EMS_CHANGE_REPORT" -> {"bpTotalChgEnergy", "bpSoc"}
          [] report = "JTS1_BP_STA_REPORT" -> battery_fields
          [] report = "JTS1_EMS_HEARTBEAT" -> {"bpRemainWatth", "emsBpAliveNum"}]

AllowLists ==
    {SensSelect({"bpPwr", "bpSoc", "bpAmp", "bpCycles"}),
     SensSelect({"bpPwr", "bpSoc", "bpAmp", "bpCycles", "bpTemp"})}

\* the flat fields of the data section
TopLevels ==
    {<<>>,
     <<E("sysLoadPwr", JNum(120)), E("online", JNum(1)), E("emsBright", JNum(7))>>}

EnergyStreams ==
    {JDict(<<>>),
     JDict(<<E("sysLoadPwr", JNum(120)), E("pv1Pwr", JNum(10)), E("pv3Pwr", JNum(1))>>)}

ChangeReports ==
    {JDict(<<E("bpSoc", JNum(50)), E("mppt1FaultCode", JNum(0)),
             E("pcsmpptCode", JNum(2)), E("sysWorkMode", JNum(3))>>),
     JDict(<<E("mpptCode", JNum(1)), E("Codemppt1", JNum(4)),
             E("Mppt2WarningCode", JNum(6)), E("bpTotalChgEnergy", JNum(900)),
             E("mppt2Fault", JNum(8))>>)}

Cells(temps) == JList([i \in DOMAIN temps |-> JNum(temps[i])])

\* battery reports: no pack; two packs with the cells at 20, 22, 24 (and a
\* scalar field between them); one pack with cells at 20 and 23
BatteryReports ==
    {JDict(<<E("updateTime", JNum(5))>>),
     JDict(<<E("HJ32ZDH4ZF7E0001",
               JText(<<E("bpSoc", JNum(80)), E("bpTemp", Cells(<<20, 22, 24>>)),
                       E("bpSn", JNum(1))>>)),
             E("updateTime", JNum(5)),
             E("HJ32ZDH4ZF7E0002",
               JText(<<E("bpTemp", Cells(<<20, 22, 24>>)), E("bpAmp", JNum(3))>>))>>),
     JDict(<<E("HJ32ZDH4ZF7E0003",
               JText(<<E("bpTemp", Cells(<<20, 23>>)), E("bpCycles", JNum(9))>>))>>)}

PvString(vol, pwr) == JDict(<<E("vol", JNum(vol)), E("amp", JNum(2)), E("pwr", JNum(pwr))>>)
Phase(vol) == JDict(<<E("vol", JNum(vol)), E("amp", JNum(1))>>)
MpptHeartBeat(strings) == E("mpptHeartBeat", JList(<<JDict(<<E("mpptPv", JList(strings))>>)>>))

\* heartbeat reports: scalar fields alone; the three phases and three PV
\* strings of 100, 150 and 50 W; no PV string; one string whose power comes
\* before its voltage
HeartBeats ==
    {JDict(<<E("bpRemainWatth", JNum(5)), E("emsWordMode", JNum(1))>>),
     JDict(<<E("bpRemainWatth", JNum(5)),
             E("pcsAPhase", Phase(230)), E("pcsBPhase", Phase(231)),
             E("pcsCPhase", Phase(229)),
             MpptHeartBeat(<<PvString(300, 100), PvString(310, 150), PvString(290, 50)>>)>>),
     JDict(<<MpptHeartBeat(<<>>), E("emsBpAliveNum", JNum(2))>>),
     JDict(<<MpptHeartBeat(<<JDict(<<E("pwr", JNum(70)), E("vol", JNum(300))>>)>>)>>)}

Document(top, quota) == JDict(<<E("data", JDict(top \o <<E("quota", JDict(quota))>>))>>)

\* the documents the cloud returns: every combination of the reports, and
\* documents whose quota object is empty
Documents ==
    {Document(top, <<E("JTS1_ENERGY_STREAM_REPORT", en), E("JTS1_EMS_CHANGE_REPORT", ch),
                     E("JTS1_BP_STA_REPORT", bp), E("JTS1_EMS_HEARTBEAT", hb)>>) :
        top \in TopLevels, en \in EnergyStreams, ch \in ChangeReports,
        bp \in BatteryReports, hb \in HeartBeats}
      \cup {Document(top, <<>>) : top \in TopLevels}

\* The snapshot normalizer on every document, with every allow-list.
InitSnapshot ==
    /\ InitManager
    /\ entities = NewEntities
    /\ device_state = EmptyDict
    /\ InitDecoder
    /\ response \in Documents
    /\ datapoints \in AllowLists
    /\ sensors = EmptyDict
    /\ processed = <<>>
    /\ results = <<>>
    /\ unit_key = ""
    /\ unit_found = <<>>

SpecSnapshot == InitSnapshot /\ [][NextSnapshot]_vars

(* ------------------ properties of the snapshot normalizer -------------- *)

EmptyQuota == Get(Get(response, "data"), "quota").items = <<>>

\* C17: on a document whose quota object is empty the call does not raise and
\* returns exactly the DataPoints of the top-level report.
C17_EmptyQuota ==
    (EmptyQuota /\ results # <<>>)
        => /\ ~results[1].raised
           /\ results[1].sensors = get_sensors_data.sensors

\* the battery records of the document, in key order
Packs ==
    SelectSeq(QuotaReport("JTS1_BP_STA_REPORT").d.items, LAMBDA e : Len(e.key) > 12)

\* the cell temperatures of a battery record
CellsOf(pack) ==
    LET temp == Get(pack.val.items[1], "bpTemp").items
    IN  [i \in DOMAIN temp |-> temp[i].num]

\* C18: in a returned collection every key of the battery report longer than
\* 12 characters has, under the number of its position among such keys, one
\* temperature DataPoint, whose value is the mean of its bpTemp array, and
\* there are no other temperature DataPoints of the battery report.
C18_PackTemperature ==
    \A n \in DOMAIN results : ~results[n].raised =>
        LET S == results[n].sensors
            temperatures ==
                {k \in DOMAIN S :
                    /\ StartsWith(k, unique_id("JTS1_BP_STA_REPORT", ""))
                    /\ EndsWith(k, "_bpTemp")}
        IN  /\ Cardinality(temperatures) = Len(Packs)
            /\ \A i \in DOMAIN Packs :
                  \E k \in temperatures :
                     /\ k = unique_id("JTS1_BP_STA_REPORT", Packs[i].key \o "_bpTemp")
                     /\ S[k].friendly_name = "bpack" \o IntToStr(i) \o "_bpTemp"
                     /\ S[k].value.kind = "num"
                     /\ S[k].value.num * Len(CellsOf(Packs[i]))
                           = Sum(CellsOf(Packs[i])) * S[k].value.den

\* two packs with cells at 20, 22 and 24: the second pack's temperature is 22
C18_Witness ==
    /\ results # <<>> /\ ~results[1].raised
    /\ Len(Packs) = 2
    /\ CellsOf(Packs[2]) = <<20, 22, 24>>
    /\ LET p == results[1].sensors[
                   unique_id("JTS1_BP_STA_REPORT", Packs[2].key \o "_bpTemp")]
       IN  p.value = JNum(22) /\ p.friendly_name = "bpack2_bpTemp"

\* the PV strings of the heartbeat report of the document
PvStrings ==
    Get(Get(QuotaReport("JTS1_EMS_HEARTBEAT").d, "mpptHeartBeat").items[1], "mpptPv").items

\* C19: in a returned collection, for a heartbeat report with a PV-string
\* array, there is one DataPoint for every field of every string, holding the
\* field's value, and one total-power DataPoint, whose value is the sum of the
\* pwr fields of all strings (0 when there is no string), and no other
\* DataPoint of the array.
C19_PvTotal ==
    \A n \in DOMAIN results :
        (~results[n].raised /\ Has(QuotaReport("JTS1_EMS_HEARTBEAT").d, "mpptHeartBeat")) =>
            LET S == results[n].sensors
                prefix == unique_id("JTS1_EMS_HEARTBEAT", "mpptHeartBeat_")
                total == prefix \o "mpptPv_pwrTotal"
                fields == UNION {{<<i, j>> : j \in DOMAIN PvStrings[i].items} :
                                 i \in DOMAIN PvStrings}
                id(f) == prefix \o "mpptPv" \o IntToStr(f[1]) \o "_"
                            \o PvStrings[f[1]].items[f[2]].key
                power(i) == IF Has(PvStrings[i], "pwr")
                            THEN Get(PvStrings[i], "pwr").num ELSE 0
            IN  /\ total \in DOMAIN S
                /\ S[total].value = JNum(Sum([i \in DOMAIN PvStrings |-> power(i)]))
                /\ \A f \in fields :
                      /\ id(f) \in DOMAIN S
                      /\ S[id(f)].value = PvStrings[f[1]].items[f[2]].val
                /\ {k \in DOMAIN S : StartsWith(k, prefix)}
                      = {total} \cup {id(f) : f \in fields}
                /\ Cardinality({id(f) : f \in fields}) = Cardinality(fields)

\* three strings of 100, 150 and 50 W: the total is 300 W
C19_Witness ==
    /\ results # <<>> /\ ~results[1].raised
    /\ Has(QuotaReport("JTS1_EMS_HEARTBEAT").d, "mpptHeartBeat")
    /\ Len(PvStrings) = 3
    /\ results[1].sensors[unique_id("JTS1_EMS_HEARTBEAT", "mpptHeartBeat_mpptPv_pwrTotal")].value
          = JNum(300)

IsPrefix(s, t) == Len(s) <= Len(t) /\ s = SubSeq(t, 1, Len(s))

\* C20: a call goes through the reports in the order top-level, energy-flow,
\* change-event, battery-status, heartbeat; every key of the mapping is the
\* id of the DataPoint under it; and once a call has written an entry, no
\* later report of that call replaces it.
C20_NoOverwrite ==
    [][/\ IsPrefix(processed', ReportOrder)
       /\ \A n \in DOMAIN results' :
             /\ IsPrefix(results'[n].processed, ReportOrder)
             /\ ~results'[n].raised => results'[n].processed = ReportOrder
       /\ \A k \in DOMAIN sensors' : sensors'[k].internal_unique_id = k
       /\ processed # <<>> =>
             \A k \in DOMAIN sensors : k \in DOMAIN sensors' /\ sensors'[k] = sensors[k]]_vars

\* a call has returned a mapping that holds the same field of the top-level
\* and of the energy-flow report, and entries of the three other reports
C20_Witness ==
    /\ results # <<>> /\ ~results[1].raised
    /\ Sn \o "_sysLoadPwr" \in DOMAIN results[1].sensors
    /\ \A i \in 2..5 :
          \E k \in DOMAIN results[1].sensors : StartsWith(k, unique_id(ReportOrder[i], ""))
    /\ unique_id("JTS1_ENERGY_STREAM_REPORT", "sysLoadPwr") \in DOMAIN results[1].sensors

(* ---------------------------- unit inference --------------------------- *)

\* field names: a head, a middle and a tail, so that names that match no
\* rule, one rule and several rules are among them, and the empty name
UnitKeys ==
    {head \o middle \o tail :
        head \in {"", "bpTemp", "ems"},
        middle \in {"", "Generation"},
        tail \in {"", "pwr", "Pwr", "Power", "amp", "Amp", "soc", "Soc", "soh", "Soh",
                  "vol", "Vol", "Watth", "Energy", "pw", "Code"}}

\* __get_unit is called with the name and returns
get_unit_call ==
    /\ unit_found = <<>>
    /\ unit_found' = <<get_unit(unit_key)>>
    /\ UNCHANGED <<prog, delivered, log, handler_runs, registrations, left_in_queue,
                   loss_reported, ret, entities, device_state, decoder_vars,
                   response, datapoints, sensors, processed, results, unit_key>>

NextUnit == get_unit_call

\* Unit inference on every field name.
InitUnit ==
    /\ InitManager
    /\ entities = NewEntities
    /\ device_state = EmptyDict
    /\ InitDecoder
    /\ response = <<>>
    /\ datapoints = EmptyDict
    /\ sensors = EmptyDict
    /\ processed = <<>>
    /\ results = <<>>
    /\ unit_key \in UnitKeys
    /\ unit_found = <<>>

SpecUnit == InitUnit /\ [][NextUnit]_vars

\* the rules in their order: what a name must end with, contain or start
\* with, and the unit of the rule
UnitRules ==
    <<[ends |-> {"pwr", "Pwr", "Power"}, has |-> {}, starts |-> {}, unit |-> "W"],
      [ends |-> {"amp", "Amp"}, has |-> {}, starts |-> {}, unit |-> "A"],
      [ends |-> {"soc", "Soc", "soh", "Soh"}, has |-> {}, starts |-> {}, unit |-> "%"],
      [ends |-> {"vol", "Vol"}, has |-> {}, starts |-> {}, unit |-> "V"],
      [ends |-> {"Watth", "Energy"}, has |-> {}, starts |-> {}, unit |-> "Wh"],
      [ends |-> {}, has |-> {"Generation"}, starts |-> {}, unit |-> "kWh"],
      [ends |-> {}, has |-> {}, starts |-> {"bpTemp"}, unit |-> "degC"]>>

RuleMatches(rule, name) ==
    \/ \E x \in rule.ends : EndsWith(name, x)
    \/ \E x \in rule.has : Contains(x, name)
    \/ \E x \in rule.starts : StartsWith(name, x)

\* C21: for every field name, the empty one included, __get_unit returns one
\* of W, A, %, V, Wh, kWh, degC (the degree sign written out) or None: the
\* unit of the first rule that matches, in the order power, current, soc/soh,
\* voltage, energy, Generation, bpTemp; None when no rule matches.
C21_UnitOfFirstRule ==
    unit_found # <<>> =>
        LET matching == {i \in DOMAIN UnitRules : RuleMatches(UnitRules[i], unit_key)}
        IN  /\ unit_found[1] \in {"W", "A", "%", "V", "Wh", "kWh", "degC", "None"}
            /\ matching = {} => unit_found[1] = "None"
            /\ matching # {} =>
                  unit_found[1] =
                     UnitRules[CHOOSE i \in matching : \A j \in matching : i <= j].unit

\* a name that starts with bpTemp, contains Generation and ends in Vol got V
C21_Witness ==
    /\ unit_key = "bpTempGenerationVol"
    /\ unit_found = <<"V">>

(* ------------------- subscribing while disconnected -------------------- *)

\* The session under callers that connect, subscribe and disconnect, and the
\* connection signals of the network thread: the calls of
\* async_subscribe_to_device with what they returned, without traffic.
NextSubscribe ==
    \/ clients_created < MaxClients /\ async_connect_error /\ Quiet
    \/ clients_created < MaxClients /\ async_connect_start /\ Quiet
    \/ async_connect_return /\ Quiet
    \/ \E sn \in Serials, r \in SubscribeResults :
          /\ async_subscribe_to_device(sn, r[1], r[2], r[3])
          /\ Returned(async_subscribe_to_device_returns(sn, r[1], r[2], r[3]))
          /\ UNCHANGED <<loss_reported, beyond>>
    \/ disconnect /\ Quiet
    \/ \E rc \in {0, 5} : on_connect(rc) /\ Quiet
    \/ on_disconnect /\ Quiet
    \/ run_worker /\ Quiet

SpecSubscribe == Init /\ [][NextSubscribe]_vars

\* C22: a call of async_subscribe_to_device(S) made while self.connected is
\* False returns False, issues no transport subscribe and leaves the
\* subscribed topics unchanged; a call whose subscribes are issued and not all
\* accepted returns False and leaves none of the three topics of S on record.
C22_SubscribeFails ==
    [][\A sn \in Serials, r \in SubscribeResults :
          (/\ async_subscribe_to_device(sn, r[1], r[2], r[3])
           /\ Returned(async_subscribe_to_device_returns(sn, r[1], r[2], r[3])))
          => /\ ~connected
                => /\ ~ret'.result
                   /\ ~ret'.issued
                   /\ subscribed_topics' = subscribed_topics
             /\ (IssuesSubscribes(sn) /\ ~(r[1] /\ r[2] /\ r[3]))
                => /\ ~ret'.result
                   /\ DeviceTopics(sn) \cap subscribed_topics' = {}]_vars

\* a call for device B has returned False on a manager that holds a client,
\* has lost its connection and still has the topics of device A on record
C22_Witness ==
    /\ ret.op = "subscribe" /\ ret.arg = <<"B">>
    /\ ~ret.conn /\ ~ret.result /\ ~ret.issued
    /\ mqtt_client # 0 /\ ~connected
    /\ subscribed_topics = DeviceTopics(<<"A">>)

(* ------------------------------ connecting ------------------------------ *)

\* a step that is the return of the async_connect call that was waiting
ConnectReturn ==
    /\ async_connect_return
    /\ Returned(async_connect_returns)
    /\ UNCHANGED <<loss_reported, beyond>>

\* a step that is an async_connect call whose connection attempt raised
ConnectError ==
    /\ clients_created < MaxClients
    /\ async_connect_error
    /\ Returned(async_connect_error_returns)
    /\ loss_reported' = FALSE
    /\ UNCHANGED beyond

\* a step that is an async_connect call that found a client
ConnectExisting ==
    /\ async_connect_existing
    /\ Returned(async_connect_existing_returns)
    /\ UNCHANGED <<loss_reported, beyond>>

\* The session under its callers and the transport, without traffic: the
\* calls of async_connect and disconnect with what they returned, the
\* connection signals of the network thread, and the worker's steps.
NextConnect ==
    \/ ConnectExisting
    \/ ConnectError
    \/ /\ clients_created < MaxClients
       /\ async_connect_start
       /\ Returned(async_connect_start_enters)
       /\ UNCHANGED <<loss_reported, beyond>>
    \/ ConnectReturn
    \/ /\ disconnect
       /\ Returned(disconnect_returns)
       /\ loss_reported' = FALSE
       /\ UNCHANGED beyond
    \/ \E rc \in {0, 5} : on_connect(rc) /\ Quiet
    \/ /\ on_disconnect
       /\ loss_reported' = (loss_reported \/ connected)
       /\ UNCHANGED <<ret, beyond>>
    \/ run_worker /\ Quiet

\* the wait loop of lines 117-119 sleeps a tenth of a second at a time and
\* leaves after ten seconds at the latest: the event loop resumes the caller
SpecConnect == Init /\ [][NextConnect]_vars /\ WF_vars(ConnectReturn)

TlvPayload == "tlv"

\* what the broker sends: the binary record and a JSON object for device A
InboundTlv ==
    {<<MQTT_TOPIC_DEVICE_PROPERTY(<<"A">>), TlvPayload>>,
     <<MQTT_TOPIC_DEVICE_PROPERTY(<<"A">>), "objA">>}

NextFallback == Stream(InboundTlv, {<<DevicePattern, "h1">>}, MaxMsgs)

\* The stream with binary records among the messages.
SpecFallback == Init /\ [][NextFallback]_vars

\* C24: a queued payload that is not JSON and is a valid binary record is
\* decoded and dispatched to the callbacks whose pattern is in its topic once
\* the worker has taken it.
C24_Fallback ==
    \A e \in LogEntries :
        (e.payload = TlvPayload /\ e.expected # {})
        => /\ e.outcome = "ok"
           /\ e.expected \subseteq {e.dispatched[i] : i \in 1..Len(e.dispatched)}

(* ------------------- handler runs across devices ----------------------- *)

\* the positions in handler_runs of the handler calls made for message id
RunsOf(id) == {i \in 1..Len(handler_runs) : handler_runs[i].id = id}

\* C26: when the worker dispatched a message of one device and a message of
\* another device that was received later, every handler call for the earlier
\* message runs before every handler call for the later one: once a handler
\* has run for the later message, all handler calls of the earlier one have
\* run, and they come first in the order of the runs.
C26_AcrossDevices ==
    \A a, b \in LogEntries :
        (a.id < b.id /\ a.topic # b.topic /\ RunsOf(b.id) # {})
        => /\ Cardinality(RunsOf(a.id)) = Len(a.dispatched)
           /\ \A i \in RunsOf(a.id), j \in RunsOf(b.id) : i < j

\* the handler has run for a message of device A and then for a message of
\* device B that was received after it, and no handler call is pending
C26_Witness ==
    /\ Len(handler_runs) = 2
    /\ handler_runs[1].id = 1 /\ handler_runs[2].id = 2
    /\ \E a, b \in LogEntries :
          /\ a.id = 1 /\ a.topic = MQTT_TOPIC_DEVICE_PROPERTY(<<"A">>)
          /\ b.id = 2 /\ b.topic = MQTT_TOPIC_DEVICE_PROPERTY(<<"B">>)
    /\ \A i \in 1..Len(loop_tasks) : loop_tasks[i].kind # "handler"

(* --------------------------- the single worker -------------------------- *)

\* the workers that take items from the queue: created, not cancelled, not ended
LiveWorkers == {w \in 1..Len(workers) : workers[w].st # "done" /\ ~workers[w].cancel}

\* the handler tasks the event loop holds
PendingHandlers == SelectSeq(loop_tasks, IsHandler)

\* C25: whatever calls of async_connect and disconnect, connection signals
\* and failed connects came before, at most one worker takes items from the
\* queue, and every step that changes device_data or creates a handler task is
\* a step of that worker.
C25_SingleWorker ==
    /\ [](Cardinality(LiveWorkers) <= 1)
    /\ [][(device_data' # device_data \/ Len(PendingHandlers') > Len(PendingHandlers))
            => /\ loop_tasks # <<>>
               /\ Head(loop_tasks).kind = "worker"
               /\ LiveWorkers = {Head(loop_tasks).worker}
               /\ run_worker]_vars

\* the worker of a second session has merged and dispatched a message that
\* was queued when the first session was disconnected, after the worker of
\* the first session was cancelled and ended
C25_Witness ==
    /\ Len(workers) = 2
    /\ workers[1].st = "done"
    /\ LiveWorkers = {2}
    /\ \E e \in LogEntries : e.stale /\ e.merged /\ e.dispatched # <<>>
    /\ handler_runs # <<>>

(* ------------------- documents with something amiss -------------------- *)

\* a string that json_loads cannot parse
JBadText == [kind |-> "text", num |-> 0, den |-> 1, items |-> <<>>]

\* battery reports with one sound pack and one pack whose string does not
\* parse, that has no bpTemp, an empty bpTemp, or a bpTemp that holds a string
AmissBatteryReports ==
    {JDict(<<E("HJ32ZDH4ZF7E0003",
               JText(<<E("bpTemp", Cells(<<20, 23>>)), E("bpCycles", JNum(9))>>)),
             E("HJ32ZDH4ZF7E0004", pack)>>) :
        pack \in {JBadText,
                  JText(<<E("bpSoc", JNum(80))>>),
                  JText(<<E("bpSoc", JNum(80)), E("bpTemp", JList(<<>>))>>),
                  JText(<<E("bpSoc", JNum(80)), E("bpTemp", JList(<<JBadText>>))>>)}}

\* the four reports of a sound document
SoundQuota(bp) ==
    <<E("JTS1_ENERGY_STREAM_REPORT",
        JDict(<<E("sysLoadPwr", JNum(120)), E("pv1Pwr", JNum(10))>>)),
      E("JTS1_EMS_CHANGE_REPORT", JDict(<<E("bpSoc", JNum(50))>>)),
      E("JTS1_BP_STA_REPORT", bp),
      E("JTS1_EMS_HEARTBEAT", JDict(<<E("bpRemainWatth", JNum(5))>>))>>

SoundBattery ==
    JDict(<<E("HJ32ZDH4ZF7E0003",
              JText(<<E("bpTemp", Cells(<<20, 23>>)), E("bpCycles", JNum(9))>>))>>)

SoundTop == <<E("sysLoadPwr", JNum(120)), E("online", JNum(1))>>

\* documents in which one report is missing from quota, or one battery
\* record is amiss, and the sound document
AmissDocuments ==
    {Document(SoundTop, SelectSeq(SoundQuota(SoundBattery), LAMBDA e : e.key # missing)) :
        missing \in {ReportOrder[i] : i \in DOMAIN ReportOrder}}
      \cup {Document(SoundTop, SoundQuota(bp)) : bp \in AmissBatteryReports}

\* allow-lists in which the entry of one report is absent, and the full ones
AmissAllowLists ==
    AllowLists
      \cup {[report \in DOMAIN full \ {absent} |-> full[report]] :
               full \in AllowLists,
               absent \in {"JTS1_EMS_CHANGE_REPORT", "JTS1_EMS_HEARTBEAT"}}

\* The snapshot normalizer on documents and allow-lists with something amiss.
InitAmiss ==
    /\ InitManager
    /\ entities = NewEntities
    /\ device_state = EmptyDict
    /\ InitDecoder
    /\ response \in AmissDocuments
    /\ datapoints \in AmissAllowLists
    /\ sensors = EmptyDict
    /\ processed = <<>>
    /\ results = <<>>
    /\ unit_key = ""
    /\ unit_found = <<>>

SpecAmiss == InitAmiss /\ [][NextSnapshot]_vars

\* C27: whatever is amiss with one report, one battery record or one entry
\* of the allow-list, a call of _get_sensors does not raise and returns the
\* DataPoints of the reports that are sound (those of the top-level fields
\* among them).
C27_NeverAborts ==
    \A i \in DOMAIN results :
        /\ ~results[i].raised
        /\ \A id \in {Sn \o "_sysLoadPwr", Sn \o "_online"} :
              id \in DOMAIN results[i].sensors

(* ------------------------ the change-event report ---------------------- *)

\* the change-event report of the document, and the fields a call surfaced
ChangeFields == KeysOf(Get(Get(Get(response, "data"), "quota"), "JTS1_EMS_CHANGE_REPORT"))
Surfaced(n, key) ==
    unique_id("JTS1_EMS_CHANGE_REPORT", key) \in DOMAIN results[n].sensors

\* the name has mppt somewhere and Code somewhere behind it
MpptThenCode(key) ==
    \E p, q \in 1..Len(key) :
        /\ p + 4 <= q /\ q + 3 <= Len(key)
        /\ SubSeq(key, p, p + 3) = "mppt"
        /\ SubSeq(key, q, q + 3) = "Code"

\* the name begins with mppt and has Code somewhere behind it
MpptFirstThenCode(key) ==
    \E q \in 5..Len(key) :
        /\ q + 3 <= Len(key)
        /\ SubSeq(key, 1, 4) = "mppt"
        /\ SubSeq(key, q, q + 3) = "Code"

\* C28, as stated: a field of the change-event report is surfaced if and only
\* if its name is in the static allow-list or has mppt, wherever in the name,
\* followed by Code.
C28_CodeAnywhere ==
    \A n \in DOMAIN results :
        (~results[n].raised /\ ~EmptyQuota) =>
            \A i \in DOMAIN ChangeFields :
                Surfaced(n, ChangeFields[i])
                   <=> \/ ChangeFields[i] \in datapoints["JTS1_EMS_CHANGE_REPORT"]
                       \/ MpptThenCode(ChangeFields[i])

\* C28, amended: a field of the change-event report is surfaced if and only
\* if its name is in the static allow-list or begins with mppt and has Code
\* somewhere behind that; the report contributes no other DataPoint.
C28_CodeAfterLeadingMppt ==
    \A n \in DOMAIN results :
        (~results[n].raised /\ ~EmptyQuota) =>
            /\ \A i \in DOMAIN ChangeFields :
                  Surfaced(n, ChangeFields[i])
                     <=> \/ ChangeFields[i] \in datapoints["JTS1_EMS_CHANGE_REPORT"]
                         \/ MpptFirstThenCode(ChangeFields[i])
            /\ \A id \in DOMAIN results[n].sensors :
                  StartsWith(id, unique_id("JTS1_EMS_CHANGE_REPORT", ""))
                  => \E i \in DOMAIN ChangeFields :
                        id = unique_id("JTS1_EMS_CHANGE_REPORT", ChangeFields[i])

\* a call has surfaced mppt1FaultCode and bpSoc of a change-event report and
\* dropped its pcsmpptCode and sysWorkMode
C28_Witness ==
    /\ results # <<>> /\ ~results[1].raised /\ ~EmptyQuota
    /\ \E i \in DOMAIN ChangeFields : ChangeFields[i] = "pcsmpptCode"
    /\ Surfaced(1, "mppt1FaultCode") /\ Surfaced(1, "bpSoc")
    /\ ~Surfaced(1, "pcsmpptCode") /\ ~Surfaced(1, "sysWorkMode")

(* ---------------------- binary payloads by topic ------------------------ *)

\* C29: on every topic, a payload that is not JSON is given to the TLV
\* decoder, as it is or after the removal of a base64 wrapping: the result of
\* decode_message is what _decode_property_message makes of the record.
C29_AnyTopic ==
    (decoded.done /\ json_loads_bytes(msg_payload) # "value")
        => \/ decoded = decode_property_message(msg_payload)
           \/ /\ b64decode(msg_payload).ok
              /\ decoded = decode_property_message(b64decode(msg_payload).bytes)

(* ------------------- nested objects in device_data --------------------- *)

\* C30: device_data is updated by recursive merge: every leaf key of a nested
\* object that the worker merged for a device is still under its key in
\* device_data of that device, whatever was merged after it.
C30_NestedSurvive ==
    \A e \in LogEntries :
        e.merged =>
            LET sn == Split(e.topic)[3]
                data == json_loads(e.payload).data
            IN  /\ sn \in DOMAIN device_data
                /\ \A k \in DOMAIN data :
                      /\ k \in DOMAIN device_data[sn]
                      /\ \A leaf \in DOMAIN data[k] : leaf \in DOMAIN device_data[sn][k]

(* ------------------------- the topic family ----------------------------- *)

\* MQTT_TOPIC_SET_PROPERTY.format(device_sn=sn)
MQTT_TOPIC_SET_PROPERTY(sn) ==
    TopicHead \o sn \o <<"/","p","r","o","p","e","r","t","y","/","s","e","t">>

\* the topics of the form <namespace>/device/<sn>/<status | properties |
\* property/set | property/set/result>
TopicFamily(sn) == DeviceTopics(sn) \cup {MQTT_TOPIC_SET_PROPERTY(sn)}

\* C31: every topic the system uses for a device is of the family of that
\* device: the topic an entity of device A has published to is in the family
\* of A, and the pattern the entity registered for its callbacks is part of
\* the topics A is subscribed under.
C31_OneFamily ==
    (ret.op = "publish")
        => /\ ret.arg \in TopicFamily(<<"A">>)
           /\ \E t \in DeviceTopics(<<"A">>) : Contains(EntityPattern(<<"A">>), t)

(* ------------------- the lifetime of a device's entry ------------------- *)

C33_OnlyEnqueues ==
    [][\A m \in Inbound :
          on_message(m[1], m[2])
              => /\ UNCHANGED <<device_data, log, handler_runs, message_queue>>
                 /\ loop_tasks' = Append(loop_tasks,
                                         PutTask([id |-> delivered', topic |-> m[1],
                                                  payload |-> m[2]]))]_vars

(* ------------------- records that end before they should ---------------- *)

\* whole fields, as bytes: field 1 as a varint of one and of two bytes, field
\* 2 as a string of one byte and of none, field 2 as a 32-bit number, field 3
\* as a string of two bytes
WholeFields ==
    {<<8, 1>>, <<8, 172, 2>>, <<18, 1, 7>>, <<18, 0>>, <<21, 1, 0, 0, 0>>,
     <<26, 2, 8, 1>>}

\* a leading byte of wire type 0 or 2 whose varint (the value, or the length)
\* has no byte, or only bytes with the continuation bit set
DanglingVarints == {<<8>>, <<8, 172>>, <<8, 172, 130>>, <<18>>, <<18, 172>>}

\* a length-delimited field that declares more bytes than there are left
ShortStrings == {<<18, 1>>, <<18, 3, 7>>, <<26, 2, 8>>}

\* what a body ends with: nothing more, or a field that is cut short
Ends == {<<>>} \cup DanglingVarints \cup ShortStrings

\* the first four bytes, the length of the body, and the body
Framed(body) == <<0, 0, 0, Len(body)>> \o body

\* The decoder on records of up to MaxFields whole fields and an end:
\* record_fields holds the fields and the end, as bytes.
InitCutShort ==
    /\ InitAround
    /\ msg_topic = <<>>
    /\ \E n \in 0..MaxFields :
          \E fs \in [1..n -> WholeFields], end \in Ends :
              record_fields = Append(fs, end)
    /\ msg_payload = Framed(Flatten(record_fields))

SpecCutShort == InitCutShort /\ [][NextDecode]_vars

\* the end of the record the decoder was given
LastField == record_fields[Len(record_fields)]

\* C34: a body that ends inside a varint, be it the value of a field of wire
\* type 0 or the length of a field of wire type 2, is decoded to nothing:
\* the fields before the varint are not returned.
C34_DanglingVarint ==
    (decoded.done /\ LastField \in DanglingVarints)
        => decoded = Decoded("none", EmptyDict)

\* a record of a whole varint field and a length whose bytes all have the
\* continuation bit set was decoded to nothing
C34_Witness ==
    /\ decoded.done
    /\ record_fields = <<<<8, 1>>, <<18, 172>>>>
    /\ decoded = Decoded("none", EmptyDict)

\* C35: a length-delimited field whose declared length is more than the
\* bytes left in the body is a decode error: the record is decoded to
\* nothing, never to a value shorter than the declared length.
C35_ExactLength ==
    (decoded.done /\ LastField \in ShortStrings)
        => decoded = Decoded("none", EmptyDict)

(* ---------------------- connecting with a handle ----------------------- *)

\* C36: an async_connect call made while self.mqtt_client is not None makes
\* no client and starts no worker, enters no wait and returns self.connected
\* as it is; a client is made and a worker is started only while there is no
\* handle, and a handle is given up only by disconnect(): after a connect
\* that timed out, a new attempt needs a disconnect() first.
C36_ExistingHandle ==
    /\ [][ConnectExisting
            => /\ UNCHANGED <<mqtt_client, clients_created, workers, loop_tasks,
                              loop_running, connected, connect_pc>>
               /\ ret'.op = "connect"
               /\ ~ret'.raised
               /\ ret'.result = connected]_vars
    /\ [][(clients_created' # clients_created \/ Len(workers') # Len(workers))
            => mqtt_client = 0]_vars
    /\ [][(mqtt_client # 0 /\ mqtt_client' # mqtt_client) => disconnect]_vars

\* a call has returned False at once on the handle of a connect that timed
\* out: one client, one worker, never connected, no call waiting
C36_Witness ==
    /\ ret.op = "connect" /\ ~ret.issued /\ ~ret.result
    /\ mqtt_client = 1 /\ clients_created = 1 /\ Len(workers) = 1
    /\ connect_pc = "idle"
    /\ ~connected /\ ~loss_reported

(* ------------------- the flag, the topics and the handle ---------------- *)

\* C37: however on_connect and on_disconnect of the network thread fall
\* between the calls of async_connect, async_subscribe_to_device and
\* disconnect, self.connected is True only while self.mqtt_client is not
\* None, and self.subscribed_topics holds topics only while it is not None.
C37_HandleBehind ==
    /\ connected => mqtt_client # 0
    /\ (subscribed_topics # {}) => mqtt_client # 0

\* the second client is connected and holds the topics of a device, after
\* the handle of the first client was given up
C37_Witness ==
    /\ clients_created = 2 /\ mqtt_client = 2
    /\ connected
    /\ subscribed_topics # {}

(* ---------------------- the value a number is set to -------------------- *)

\* the multiples of the step that are nearest to h halves: no other multiple
\* is nearer
NearestMultiples(h) ==
    LET most == CHOOSE m \in NumberInputs : \A x \in NumberInputs : x <= m
        multiples == {k * NumberStep : k \in 0..most}
        Away(m) == IF 2 * m >= h THEN 2 * m - h ELSE h - 2 * m
    IN  {m \in multiples : \A o \in multiples : Away(m) <= Away(o)}

\* a number brought into the bounds of the entity
WithinBounds(m) ==
    IF m < NumberMin THEN NumberMin ELSE IF m > NumberMax THEN NumberMax ELSE m

C39_TotalInWatt ==
    \A n \in DOMAIN results :
        (~results[n].raised /\ Has(QuotaReport("JTS1_EMS_HEARTBEAT").d, "mpptHeartBeat")) =>
            LET total == unique_id("JTS1_EMS_HEARTBEAT", "mpptHeartBeat_mpptPv_pwrTotal")
            IN  /\ total \in DOMAIN results[n].sensors
                /\ results[n].sensors[total].unit = "W"

====
